---- MODULE Spec2Model ----
(***************************************************************************)
(* A model of the stack-machine toolchain: the two-pass assembler, the     *)
(* disassembler and the interpreter, with the helper functions they share. *)
(* Offsets (pc, byte offsets, string indices) are 0-based as in the C++    *)
(* code; TLA+ sequences are indexed from 1, hence the "+ 1" at every       *)
(* subscript.                                                              *)
(***************************************************************************)
EXTENDS Integers, Sequences, FiniteSets, TLC

VARIABLES
    \* ---- files
    source,             \* the source text file: a sequence of lines as fgets returns them
    image,              \* the binary (.asm) file: a sequence of bytes
    text,               \* the disassembly text file: a sequence of written lines
    \* ---- control: which function of stack-machine.cpp is executing
    task,
    \* ---- the two assemble functions
    isResolvingLabels,  \* TRUE in the first run (output == nullptr)
    lineNo,             \* number of lines fgets has returned in this run
    lineBuf,            \* the 256-byte buffer at lineOriginPtr (NUL-terminated contents)
    currentByteOffset,
    labelTable,         \* LabelTable::labels, a map name -> offset
    statusCode,
    written,            \* per source line, the offset and bytes the second run emitted
    \* ---- run() and the StackMachine it owns
    assembly,           \* the mapped image
    assemblySize,
    pc,
    registers,
    stack,
    callStack,
    memory,             \* RAM::memory, a map address -> byte (absent = never written)
    opcode,             \* run()'s local: the value processNextOperation returned
    fetched,            \* processNextOperation()'s local: the byte getNextOperation returned
    fetchedAt,          \* the pc at which that byte was fetched
    stdout,
    fault,              \* "none", or the signal that ended the process
    \* ---- disassemble() and its DisassemblyBuffer
    lines,              \* DisassemblyBuffer::lines
    labels,             \* DisassemblyBuffer::labels, a map offset -> name
    disOffset,          \* disassemble()'s currentByteOffset
    \* ---- results
    exitCode,           \* what the running function returned (NotReturned until then)
    firstImage          \* the image of the first assembly, kept to compare a round trip

fileVars == <<source, image, text>>
asmVars  == <<isResolvingLabels, lineNo, lineBuf, currentByteOffset, labelTable,
              statusCode, written>>
runVars  == <<assembly, assemblySize, pc, registers, stack, callStack, memory,
              opcode, fetched, fetchedAt, stdout, fault>>
disVars  == <<lines, labels, disOffset>>
vars     == <<fileVars, task, asmVars, runVars, disVars, exitCode, firstImage>>

(***************************************************************************)
(* Opcodes and error codes (stack-machine-utils.h).                        *)
(***************************************************************************)
IN_OPCODE    == 1
OUT_OPCODE   == 2
POP_OPCODE   == 4
PUSH_OPCODE  == 5
ADD_OPCODE   == 8
SUB_OPCODE   == 9
MUL_OPCODE   == 10
DIV_OPCODE   == 11
SQRT_OPCODE  == 12
DUP_OPCODE   == 13
JMP_OPCODE   == 32
JMPNE_OPCODE == 34
JMPE_OPCODE  == 35
JMPL_OPCODE  == 36
JMPLE_OPCODE == 37
JMPG_OPCODE  == 38
JMPGE_OPCODE == 39
RET_OPCODE   == 48
CALL_OPCODE  == 49
HLT_OPCODE   == 0

ERR_INVALID_OPERATION   == 255
ERR_INVALID_REGISTER    == 254
ERR_STACK_UNDERFLOW     == 253
ERR_INVALID_LABEL       == 252
ERR_INVALID_FILE        == 251
\* The header revision that declares the RAM opcodes is not in the tree; the
\* value continues the descending sequence of the error codes above.
ERR_INVALID_RAM_ADDRESS == 250

REGISTERS_NUMBER == 4
IS_REG_OP_MASK   == 128
\* RAM_FLAG, bit 6 of the opcode.
IS_RAM_OP_MASK   == 64

PUSHR_OPCODE  == PUSH_OPCODE + IS_REG_OP_MASK
POPR_OPCODE   == POP_OPCODE + IS_REG_OP_MASK
PUSHM_OPCODE  == PUSH_OPCODE + IS_RAM_OP_MASK
POPM_OPCODE   == POP_OPCODE + IS_RAM_OP_MASK
PUSHRM_OPCODE == PUSH_OPCODE + IS_REG_OP_MASK + IS_RAM_OP_MASK
POPRM_OPCODE  == POP_OPCODE + IS_REG_OP_MASK + IS_RAM_OP_MASK

\* RAM::SIZE
RAM_SIZE == 1024

\* sizeof(byte), sizeof(int), sizeof(double) on the platform the code targets
SIZEOF_BYTE   == 1
SIZEOF_INT    == 4
SIZEOF_DOUBLE == 8

Byte == 0..255
INT_MAX == 2147483646 + 1
INT_MIN == (0 - INT_MAX) - 1

\* The value of exitCode while the function has not returned.
NotReturned == 0 - 1

(***************************************************************************)
(* Bit operations on bytes.                                                *)
(***************************************************************************)
\* opcode & mask != 0, for a one-bit mask
HasFlag(b, mask) == (b \div mask) % 2 = 1

\* opcode |= mask, for a one-bit mask
SetFlag(b, mask) == IF HasFlag(b, mask) THEN b ELSE b + mask

(***************************************************************************)
(* IEEE-754 doubles.  A double is tracked exactly when it is a zero, an    *)
(* infinity, a NaN, or (-1)^s * m * 2^e with an odd m < 2^21 (then the low *)
(* 32 bits of its mantissa are zero).  Any other bit pattern read from     *)
(* memory is kept as its eight bytes ("raw"); a result of arithmetic that  *)
(* leaves the tracked set is "unk", a finite double the model does not     *)
(* follow further.                                                         *)
(***************************************************************************)

RECURSIVE Norm(_, _, _)
Norm(s, m, e) ==
    IF m = 0 THEN [c |-> "fin", s |-> s, m |-> 0, e |-> 0]
    ELSE IF m % 2 = 0 THEN Norm(s, m \div 2, e + 1)
    ELSE [c |-> "fin", s |-> s, m |-> m, e |-> e]

Inf(s)     == [c |-> "inf", s |-> s, m |-> 0, e |-> 0]
NaN        == [c |-> "nan", s |-> 0, m |-> 0, e |-> 0]
Unk        == [c |-> "unk", s |-> 0, m |-> 0, e |-> 0]
Raw(bytes) == [c |-> "raw", s |-> bytes[8] \div 128, b |-> bytes]

\* The tracked double with this sign, mantissa and exponent, if there is one.
Mk(s, m, e) == LET x == Norm(s, m, e) IN IF x.m < 2^21 THEN x ELSE Unk

\* The double of an integer n, |n| < 2^21 * 2^k.
D(n)    == Mk(IF n < 0 THEN 1 ELSE 0, IF n < 0 THEN 0 - n ELSE n, 0)
\* n / 2^k
DFrac(n, k) == Mk(IF n < 0 THEN 1 ELSE 0, IF n < 0 THEN 0 - n ELSE n, 0 - k)
Zero    == D(0)

RECURSIVE BitLen(_)
BitLen(m) == IF m = 0 THEN 0 ELSE 1 + BitLen(m \div 2)

IsZero(x)    == x.c = "fin" /\ x.m = 0
\* std::isfinite
\* A test that takes the infinities for finite.
isfiniteOrInfinite(x) == x.c \in {"fin", "raw", "unk", "inf"}
isfinite(x)  == x.c \in {"fin", "raw", "unk"}
Neg(x)       == IF x.c \in {"fin", "inf"} THEN [x EXCEPT !.s = 1 - x.s] ELSE x
Sgn(x)       == IF IsZero(x) THEN 0 ELSE IF x.s = 1 THEN 0 - 1 ELSE 1
\* Position of the leading bit of a nonzero tracked double.
TopBit(x)    == BitLen(x.m) + x.e
Signed(x, sh) == Sgn(x) * x.m * 2^sh
Min2(a, b)   == IF a < b THEN a ELSE b
Abs(n)       == IF n < 0 THEN 0 - n ELSE n

\* lhs + rhs
DAdd(x, y) ==
    IF x.c = "nan" \/ y.c = "nan" THEN NaN
    ELSE IF x.c = "inf" /\ y.c = "inf" THEN (IF x.s = y.s THEN x ELSE NaN)
    ELSE IF x.c = "inf" THEN x
    ELSE IF y.c = "inf" THEN y
    ELSE IF x.c # "fin" \/ y.c # "fin" THEN Unk
    ELSE IF IsZero(x) /\ IsZero(y) THEN (IF x.s = 1 /\ y.s = 1 THEN Norm(1, 0, 0) ELSE Zero)
    ELSE IF IsZero(x) THEN y
    ELSE IF IsZero(y) THEN x
    ELSE LET lo == Min2(x.e, y.e) IN
         IF TopBit(x) - lo > 30 \/ TopBit(y) - lo > 30 THEN Unk
         ELSE LET sum == Signed(x, x.e - lo) + Signed(y, y.e - lo) IN
              IF sum = 0 THEN Zero
              ELSE Mk(IF sum < 0 THEN 1 ELSE 0, Abs(sum), lo)

\* lhs - rhs
DSub(x, y) == DAdd(x, Neg(y))

Xor(a, b) == (a + b) % 2

\* lhs * rhs
DMul(x, y) ==
    IF x.c = "nan" \/ y.c = "nan" THEN NaN
    ELSE IF x.c = "inf" \/ y.c = "inf" THEN
         (IF IsZero(x) \/ IsZero(y) THEN NaN ELSE Inf(Xor(x.s, y.s)))
    ELSE IF x.c # "fin" \/ y.c # "fin" THEN Unk
    ELSE IF BitLen(x.m) + BitLen(y.m) > 30 THEN Unk
    ELSE Mk(Xor(x.s, y.s), x.m * y.m, x.e + y.e)

\* lhs / rhs
DDiv(x, y) ==
    IF x.c = "nan" \/ y.c = "nan" THEN NaN
    ELSE IF x.c = "inf" THEN (IF y.c = "inf" THEN NaN ELSE Inf(Xor(x.s, y.s)))
    ELSE IF y.c = "inf" THEN Norm(Xor(x.s, y.s), 0, 0)
    ELSE IF x.c # "fin" \/ y.c # "fin" THEN Unk
    ELSE IF IsZero(y) THEN (IF IsZero(x) THEN NaN ELSE Inf(Xor(x.s, y.s)))
    ELSE IF x.m % y.m = 0 THEN Mk(Xor(x.s, y.s), x.m \div y.m, x.e - y.e)
    ELSE Unk

RECURSIVE IntSqrt(_, _)
\* the largest r >= from with r * r <= n
IntSqrt(n, from) == IF (from + 1) * (from + 1) > n THEN from ELSE IntSqrt(n, from + 1)

\* sqrt(top)
DSqrt(x) ==
    IF x.c = "nan" THEN NaN
    ELSE IF x.c = "inf" THEN (IF x.s = 0 THEN x ELSE NaN)
    ELSE IF x.c # "fin" THEN Unk
    ELSE IF IsZero(x) THEN x
    ELSE IF x.s = 1 THEN NaN
    ELSE LET m2 == IF x.e % 2 = 0 THEN x.m ELSE 2 * x.m
             e2 == IF x.e % 2 = 0 THEN x.e ELSE x.e - 1
             r  == IntSqrt(m2, 0)
         IN IF m2 < 2^20 /\ r * r = m2 THEN Mk(0, r, e2 \div 2) ELSE Unk

\* lhs < rhs
DLess(x, y) ==
    IF x.c = "nan" \/ y.c = "nan" THEN FALSE
    ELSE IF x.c = "inf" THEN x.s = 1 /\ ~(y.c = "inf" /\ y.s = 1)
    ELSE IF y.c = "inf" THEN y.s = 0
    ELSE \* two tracked doubles: any other operand is an error of the model
         LET sx == Sgn(x)  sy == Sgn(y) IN
         IF sx # sy THEN sx < sy
         ELSE IF sx = 0 THEN FALSE
         ELSE IF TopBit(x) # TopBit(y) THEN
              (IF sx = 1 THEN TopBit(x) < TopBit(y) ELSE TopBit(x) > TopBit(y))
         ELSE LET lo == Min2(x.e, y.e) IN
              Signed(x, x.e - lo) < Signed(y, y.e - lo)

\* lhs == rhs (numerically: -0 == +0, NaN != NaN)
DEq(x, y) ==
    IF x.c = "nan" \/ y.c = "nan" THEN FALSE
    ELSE IF IsZero(x) /\ IsZero(y) THEN TRUE
    ELSE x = y

DLessEq(x, y) == DLess(x, y) \/ DEq(x, y)

\* fabs(d) < COMPARE_EPS, COMPARE_EPS = 1e-9 = 2^30 / 10^9 * 2^-30, 2^-30 < 1e-9 < 2^-29
FabsLessEps(d) ==
    IF d.c \in {"nan", "inf"} THEN FALSE
    ELSE \* a tracked double (any other is an error of the model)
         IF IsZero(d) THEN TRUE
         ELSE IF TopBit(d) <= 0 - 30 THEN TRUE
         ELSE IF TopBit(d) >= 0 - 28 THEN FALSE
         ELSE \* 2^-30 <= |d| < 2^-29: |d| < 1e-9 iff m * 5^9 < 2^(BitLen(m) + 20)
              d.m < 1024 /\ d.m * 1953125 < 2^(BitLen(d.m) + 20)

\* (int)operand: the value when the truncated operand is an int; the
\* conversion is undefined otherwise (ok = FALSE).
IntOfDouble(x) ==
    IF x.c # "fin" THEN [ok |-> FALSE, v |-> 0]
    ELSE IF IsZero(x) THEN [ok |-> TRUE, v |-> 0]
    ELSE IF x.e >= 0 THEN
         (IF TopBit(x) > 31 \/ (TopBit(x) = 31 /\ ~(x.s = 1 /\ x.m = 1))
          THEN [ok |-> FALSE, v |-> 0]
          ELSE IF TopBit(x) = 31 THEN [ok |-> TRUE, v |-> INT_MIN]
          ELSE [ok |-> TRUE, v |-> Signed(x, x.e)])
    ELSE IF 0 - x.e > 21 THEN [ok |-> TRUE, v |-> 0]
    ELSE [ok |-> TRUE, v |-> Sgn(x) * (x.m \div 2^(0 - x.e))]

(***************************************************************************)
(* union doubleAsBytes / union intAsBytes: the little-endian bytes of a    *)
(* double and of an int.                                                   *)
(***************************************************************************)

\* The high four bytes (little-endian) for sign s, biased exponent be and
\* the top 20 mantissa bits f.
HighBytes(s, be, f) ==
    <<f % 256, (f \div 256) % 256, (be % 16) * 16 + f \div 65536, s * 128 + be \div 16>>

BytesOfDouble(x) ==
    CASE x.c = "raw" -> x.b
      [] x.c = "inf" -> <<0, 0, 0, 0>> \o HighBytes(x.s, 2047, 0)
      [] x.c = "nan" -> <<0, 0, 0, 0>> \o HighBytes(0, 2047, 2^19)
      [] x.c = "fin" /\ x.m = 0 -> <<0, 0, 0, 0>> \o HighBytes(x.s, 0, 0)
      [] x.c = "fin" /\ x.m # 0 /\ TopBit(x) - 1 \in (0 - 1022)..1023 ->
            LET len == BitLen(x.m) IN
            <<0, 0, 0, 0>> \o HighBytes(x.s, TopBit(x) - 1 + 1023,
                                    (x.m - 2^(len - 1)) * 2^(21 - len))

DoubleOfBytes(bs) ==
    LET s  == bs[8] \div 128
        be == (bs[8] % 128) * 16 + bs[7] \div 16
        f  == (bs[7] % 16) * 65536 + bs[6] * 256 + bs[5]
        lowZero == SubSeq(bs, 1, 4) = <<0, 0, 0, 0>>
    IN  IF be = 2047 THEN (IF f = 0 /\ lowZero THEN Inf(s) ELSE NaN)
        ELSE IF ~lowZero THEN Raw(bs)
        ELSE IF be = 0 THEN (IF f = 0 THEN Norm(s, 0, 0) ELSE Raw(bs))
        ELSE Norm(s, 2^20 + f, be - 1023 - 20)

BytesOfInt(v) ==
    <<v % 256, (v \div 256) % 256, (v \div 65536) % 256, (v \div 16777216) % 256>>

\* The int made of the three low bytes only.
IntOfLowBytes(bs) == bs[1] + 256 * bs[2] + 65536 * bs[3]

IntOfBytes(bs) ==
    bs[1] + 256 * bs[2] + 65536 * bs[3]
      + 16777216 * (IF bs[4] >= 128 THEN bs[4] - 256 ELSE bs[4])


\* F applied to the value of v: v is evaluated once, before F is applied,
\* as a C local is assigned once and then read.
Eval(v, F(_)) == CHOOSE r \in {F(x) : x \in {v}} : TRUE

(***************************************************************************)
(* C strings.  A string is a TLA+ string; NUL stands for the terminating   *)
(* '\0' inside a buffer.                                                   *)
(***************************************************************************)
NUL == "$"

\* s[i]; past the modelled contents the calloc'ed buffer holds '\0'
Char(s, i) == IF i >= 0 /\ i < Len(s) THEN SubSeq(s, i + 1, i + 1) ELSE NUL

isspace(ch) == ch \in {" ", "\t", "\n", "\r", "\f"}
isdigit(ch) == ch \in {"0", "1", "2", "3", "4", "5", "6", "7", "8", "9"}

RECURSIVE DigitValue(_, _)
DigitValue(ch, d) == IF Char("0123456789", d) = ch THEN d ELSE DigitValue(ch, d + 1)

RECURSIVE EndOfString(_, _)
\* index of the first '\0' at or after i
EndOfString(s, i) == IF Char(s, i) = NUL THEN i ELSE EndOfString(s, i + 1)

\* strlen(s + i)
strlen(s, i) == EndOfString(s, i) - i

\* the C string that starts at s + i
CStr(s, i) == SubSeq(s, i + 1, EndOfString(s, i))

\* s with s[i] = ch
SetChar(s, i, ch) ==
    IF i < Len(s) THEN SubSeq(s, 1, i) \o ch \o SubSeq(s, i + 2, Len(s)) ELSE s

(***************************************************************************)
(* printf("%lg") and strtod, for the doubles the model tracks.             *)
(***************************************************************************)
RECURSIVE Digits(_)
Digits(n) == IF n < 10 THEN 1 ELSE 1 + Digits(n \div 10)

\* n / d rounded to nearest, ties to even
RoundHalfEven(n, d) ==
    LET q == n \div d
        r == n % d
    IN  IF r > d - r \/ (r = d - r /\ q % 2 = 1) THEN q + 1 ELSE q

RECURSIVE StripZeros(_)
\* [n, k] is n / 10^k: drop the trailing zeros of n
StripZeros(nk) ==
    IF nk.n # 0 /\ nk.n % 10 = 0 THEN StripZeros([n |-> nk.n \div 10, k |-> nk.k - 1]) ELSE nk

RECURSIVE PadLeft(_, _)
PadLeft(str, width) == IF Len(str) >= width THEN str ELSE PadLeft("0" \o str, width)

\* The decimal rounded to the six significant digits of %g.
SixDigits(nk) ==
    LET len == Digits(nk.n) IN
    IF len <= 6 THEN StripZeros(nk)
    ELSE LET r == RoundHalfEven(nk.n, 10^(len - 6)) IN
         StripZeros([n |-> r, k |-> nk.k - (len - 6)])

FormatG(x) ==
    LET sign == IF x.s = 1 THEN "-" ELSE "" IN
    CASE x.c = "inf" -> sign \o "inf"
      [] x.c = "nan" -> "nan"
      [] x.c = "fin" /\ x.m = 0 -> sign \o "0"
      [] x.c = "fin" /\ x.m # 0 ->
            LET \* the decimal n / 10^k equal to the tracked nonzero double x
                dec  == CASE x.e >= 0 /\ TopBit(x) <= 30 -> [n |-> x.m * 2^x.e, k |-> 0]
                          [] x.e < 0 /\ x.e >= 0 - 4     ->
                                 [n |-> x.m * 5^(0 - x.e), k |-> 0 - x.e]
                nk   == SixDigits(dec)
                digs == ToString(nk.n)
                exp  == Len(digs) - 1 - nk.k
            IN  IF exp < 0 - 4 \/ exp >= 6
                THEN sign \o Head(digs)
                          \o (IF Len(digs) > 1 THEN "." \o Tail(digs) ELSE "")
                          \o "e" \o (IF exp < 0 THEN "-" ELSE "+")
                          \o PadLeft(ToString(Abs(exp)), 2)
                ELSE IF nk.k <= 0 THEN sign \o ToString(nk.n * 10^(0 - nk.k))
                ELSE sign \o ToString(nk.n \div 10^nk.k) \o "."
                          \o PadLeft(ToString(nk.n % 10^nk.k), nk.k)

RECURSIVE ScanDigits(_, _, _)
\* Reads decimal digits from s + i: the value read (at most nine digits are
\* accumulated), the number of digits, and the index after them.
ScanDigits(s, i, acc) ==
    IF isdigit(Char(s, i))
    THEN Eval([v |-> IF acc.n < 9 THEN acc.v * 10 + DigitValue(Char(s, i), 0) ELSE acc.v,
               n |-> acc.n + 1, dropped |-> acc.dropped \/ acc.n >= 9],
              LAMBDA next : ScanDigits(s, i + 1, next))
    ELSE [v |-> acc.v, n |-> acc.n, dropped |-> acc.dropped, end |-> i]

\* The double nearest to (-1)^s * n * 10^p, when the model tracks it.
DoubleOfDecimal(s, n, p) ==
    IF n = 0 THEN Norm(s, 0, 0)
    ELSE IF p > 308 THEN Inf(s)
    ELSE IF p >= 0 THEN (IF p <= 9 /\ n <= (2^30) \div 10^p THEN Mk(s, n * 10^p, 0) ELSE Unk)
    ELSE IF 0 - p <= 9 /\ n % 5^(0 - p) = 0 THEN Mk(s, n \div 5^(0 - p), p)
    ELSE Unk

\* strtod(s + i, &endptr): the value, and endptr as an index into s.
\* Decimal forms and "inf"/"nan" are read; hexadecimal forms are not modelled.
strtod(s, i) ==
    LET NoDigits == [v |-> 0, n |-> 0, dropped |-> FALSE] IN
    Eval(IF Char(s, i) \in {"-", "+"} THEN i + 1 ELSE i, LAMBDA i1 :
    Eval(ScanDigits(s, i1, NoDigits), LAMBDA ip :
    Eval(IF Char(s, ip.end) = "." THEN ScanDigits(s, ip.end + 1, ip)
         ELSE [ip EXCEPT !.n = 0], LAMBDA fp :
    Eval(IF Char(s, ip.end) = "." THEN fp.end ELSE ip.end, LAMBDA mEnd :
    Eval(IF Char(s, mEnd) \in {"e", "E"}
         THEN ScanDigits(s, IF Char(s, mEnd + 1) \in {"-", "+"} THEN mEnd + 2
                            ELSE mEnd + 1, NoDigits)
         ELSE NoDigits, LAMBDA ep :
        LET sg    == IF Char(s, i) = "-" THEN 1 ELSE 0
            word3 == SubSeq(s, i1 + 1, Min2(i1 + 3, Len(s)))
            fracN == IF Char(s, ip.end) = "." THEN fp.n - ip.n ELSE 0
            total == ip.n + fracN
            hasE  == Char(s, mEnd) \in {"e", "E"} /\ ep.n > 0
            expo  == IF ~hasE THEN 0
                     ELSE IF Char(s, mEnd + 1) = "-" THEN 0 - ep.v ELSE ep.v
            mant  == IF Char(s, ip.end) = "." THEN fp.v ELSE ip.v
            lost  == IF Char(s, ip.end) = "." THEN fp.dropped ELSE ip.dropped
        IN  IF word3 \in {"inf", "INF", "Inf"} THEN [value |-> Inf(sg), end |-> i1 + 3]
            ELSE IF word3 \in {"nan", "NAN", "NaN"} THEN [value |-> NaN, end |-> i1 + 3]
            ELSE IF total = 0 THEN [value |-> Zero, end |-> i]
            ELSE [value |-> IF lost THEN Unk ELSE DoubleOfDecimal(sg, mant, expo - fracN),
                  end   |-> IF hasE THEN ep.end ELSE mEnd])))))

(***************************************************************************)
(* Operation tables (stack-machine-utils.cpp).                             *)
(***************************************************************************)
NullaryOpcodes ==
    {IN_OPCODE, OUT_OPCODE, POP_OPCODE, ADD_OPCODE, SUB_OPCODE, MUL_OPCODE, DIV_OPCODE,
     SQRT_OPCODE, DUP_OPCODE, RET_OPCODE, HLT_OPCODE}

UnaryOpcodes ==
    {PUSH_OPCODE, PUSHR_OPCODE, PUSHM_OPCODE, PUSHRM_OPCODE, POPR_OPCODE, POPM_OPCODE,
     POPRM_OPCODE, JMP_OPCODE, JMPNE_OPCODE, JMPE_OPCODE, JMPL_OPCODE, JMPLE_OPCODE,
     JMPG_OPCODE, JMPGE_OPCODE, CALL_OPCODE}

\* A table that also gives an arity to every byte that carries REG_FLAG;
\* the properties of invalid opcodes must tell it from the table of the code.
ArityOfEveryRegisterByte(op) ==
    IF op \in NullaryOpcodes THEN 0
    ELSE IF op \in UnaryOpcodes \/ HasFlag(op, IS_REG_OP_MASK) THEN 1
    ELSE ERR_INVALID_OPERATION

getOperationArityByOpcode(op) ==
    IF op \in NullaryOpcodes THEN 0
    ELSE IF op \in UnaryOpcodes THEN 1
    ELSE ERR_INVALID_OPERATION

isJumpOperation(op) ==
    op \in {JMP_OPCODE, JMPNE_OPCODE, JMPE_OPCODE, JMPL_OPCODE, JMPLE_OPCODE,
            JMPG_OPCODE, JMPGE_OPCODE, CALL_OPCODE}

\* A test that does not take ERR_STACK_UNDERFLOW for an error.
isErrorButUnderflow(op) ==
    op \in {ERR_INVALID_OPERATION, ERR_INVALID_REGISTER,
            ERR_INVALID_LABEL, ERR_INVALID_FILE, ERR_INVALID_RAM_ADDRESS}

isError(op) ==
    op \in {ERR_INVALID_OPERATION, ERR_INVALID_REGISTER, ERR_STACK_UNDERFLOW,
            ERR_INVALID_LABEL, ERR_INVALID_FILE, ERR_INVALID_RAM_ADDRESS}

(***************************************************************************)
(* What undefined behaviour may produce: the int an out-of-range           *)
(* double-to-int conversion yields (INT_MIN with cvttsd2si, a saturated    *)
(* value elsewhere), the byte an out-of-bounds array read finds, whether   *)
(* a read past the mapped image faults or finds the zero padding of the    *)
(* last page, and whether a byte stored outside the array is still there   *)
(* when it is read back.                                                   *)
(***************************************************************************)
UB == [cast : {INT_MIN, INT_MAX}, byte : {0, 255}, past : {"zero", "SIGSEGV"},
       kept : BOOLEAN]

(***************************************************************************)
(* class RAM                                                               *)
(***************************************************************************)
\* RAM::getAt: memory[pos + i]; a read outside the array yields the byte an
\* earlier store left there (u.kept) or u.byte
getAt(mem, pos, u) ==
    LET MemRead(a) ==
            IF a \in 0..(RAM_SIZE - 1) THEN (IF a \in DOMAIN mem THEN mem[a] ELSE 0)
            ELSE IF u.kept /\ a \in DOMAIN mem THEN mem[a]
            ELSE u.byte
    IN  DoubleOfBytes([k \in 1..SIZEOF_DOUBLE |-> MemRead(pos + (k - 1))])

\* RAM::setAt
setAt(mem, pos, value) ==
    LET bs    == BytesOfDouble(value)
        cells == pos..(pos + SIZEOF_DOUBLE - 1)
    IN  [a \in DOMAIN mem \cup cells |-> IF a \in cells THEN bs[a - pos + 1] ELSE mem[a]]

(***************************************************************************)
(* immortal-stack: push, pop, top, getStackSize.  pop and top assert       *)
(* _size > 0 (STACK_SECURITY_LEVEL 3).                                     *)
(***************************************************************************)
getStackSize(st) == Len(st)
push(st, x)      == Append(st, x)
\* A stack that hands out its oldest element.
bottom(st)       == st[1]
top(st)          == st[Len(st)]
\* A pop that takes two elements off.
poppedTwo(st)    == SubSeq(st, 1, Len(st) - 2)
popped(st)       == SubSeq(st, 1, Len(st) - 1)

(***************************************************************************)
(* class AssemblyMachine: reading the mapped image at pc.                  *)
(***************************************************************************)
\* assembly[p]; past the end of the file the mapped page holds zeros
ReadByte(p) == IF p >= 0 /\ p < assemblySize THEN assembly[p + 1] ELSE 0

\* Whether reading n bytes at p leaves the mapped image.
ReadsPast(p, n) == p < 0 \/ p + n > assemblySize

getNextOperation(p) == [value |-> ReadByte(p), pc |-> p + SIZEOF_BYTE]

\* A reader that advances pc by the size of an int.
getNextOperandShort(p) ==
    [value |-> DoubleOfBytes([k \in 1..SIZEOF_DOUBLE |-> ReadByte(p + (k - 1))]),
     pc    |-> p + SIZEOF_INT]

getNextOperand(p) ==
    [value |-> DoubleOfBytes([k \in 1..SIZEOF_DOUBLE |-> ReadByte(p + (k - 1))]),
     pc    |-> p + SIZEOF_DOUBLE]

\* A reader that wraps the register byte instead of rejecting it; the
\* property of invalid registers must tell it from the reader of the code.
getNextRegisterWrapping(p) ==
    [value |-> ReadByte(p) % REGISTERS_NUMBER, pc |-> p + SIZEOF_BYTE]

getNextRegister(p) ==
    LET reg == ReadByte(p) IN
    [value |-> IF reg >= REGISTERS_NUMBER THEN ERR_INVALID_REGISTER ELSE reg,
     pc    |-> p + SIZEOF_BYTE]

getNextJumpOffset(p) ==
    [value |-> IntOfBytes([k \in 1..SIZEOF_INT |-> ReadByte(p + (k - 1))]),
     pc    |-> p + SIZEOF_INT]

\* assert((pc >= 0) && (pc <= assemblySize))
PcAssertion(p) == p >= 0 /\ p <= assemblySize

(***************************************************************************)
(* class StackMachine.  Each process* operator yields the value returned   *)
(* and the fields it leaves behind; "fault" is the signal raised by a      *)
(* failed assertion or a wild memory access.                               *)
(***************************************************************************)
Machine(p) ==
    [ret |-> 0, pc |-> p, stack |-> stack, callStack |-> callStack,
     registers |-> registers, memory |-> memory, stdout |-> stdout, fault |-> "none"]

\* A return of ERR_STACK_UNDERFLOW that comes after a pop.
ReturnsAfterPop(m, code) ==
    [m EXCEPT !.ret = code,
              !.stack = IF code = ERR_STACK_UNDERFLOW /\ @ # <<>> THEN popped(@) ELSE @]

Returns(m, code) == [m EXCEPT !.ret = code]
Faults(m, sig)   == [m EXCEPT !.fault = sig]

\* The guards without the one of DUP; the underflow property must tell them
\* from the guards of the code.
RequiredDepthWithoutDup(op) ==
    IF op \in {OUT_OPCODE, POP_OPCODE, SQRT_OPCODE} THEN 1
    ELSE IF op \in {ADD_OPCODE, SUB_OPCODE, MUL_OPCODE, DIV_OPCODE} THEN 2
    ELSE 0

\* The operand-stack depth below which the no-operand operation returns
\* ERR_STACK_UNDERFLOW (the getStackSize(&stack) < n guards).
RequiredDepth(op) ==
    IF op \in {OUT_OPCODE, POP_OPCODE, SQRT_OPCODE, DUP_OPCODE} THEN 1
    ELSE IF op \in {ADD_OPCODE, SUB_OPCODE, MUL_OPCODE, DIV_OPCODE} THEN 2
    ELSE 0

\* Arithmetic that takes the top of the stack for the left operand.
ArithTopFirst(op, lhs, rhs) ==
    CASE op = ADD_OPCODE -> DAdd(rhs, lhs)
      [] op = SUB_OPCODE -> DSub(rhs, lhs)
      [] op = MUL_OPCODE -> DMul(rhs, lhs)
      [] op = DIV_OPCODE -> DDiv(rhs, lhs)

\* lhs op rhs of the four arithmetic operations
Arith(op, lhs, rhs) ==
    CASE op = ADD_OPCODE -> DAdd(lhs, rhs)
      [] op = SUB_OPCODE -> DSub(lhs, rhs)
      [] op = MUL_OPCODE -> DMul(lhs, rhs)
      [] op = DIV_OPCODE -> DDiv(lhs, rhs)

\* The number of values the no-operand operation takes off the operand
\* stack with pop() or reads with top().
StackOperands(op) ==
    IF op \in {OUT_OPCODE, POP_OPCODE, SQRT_OPCODE, DUP_OPCODE} THEN 1
    ELSE IF op \in {ADD_OPCODE, SUB_OPCODE, MUL_OPCODE, DIV_OPCODE} THEN 2
    ELSE 0

\* A result the model does not follow (see the doubles above).
Untracked(x) == x.c \notin {"fin", "inf", "nan"}
Leaves(m, x) == IF Untracked(x) THEN Faults(m, "untracked") ELSE m

\* A RET that takes offset 0 as the return address when the call stack is
\* empty.
RetToStart(m) ==
    IF getStackSize(m.callStack) < 1 THEN Returns([m EXCEPT !.pc = 0], RET_OPCODE)
    ELSE Returns([m EXCEPT !.pc = top(m.callStack), !.callStack = popped(m.callStack)],
                 RET_OPCODE)

\* The RET branch: if (getStackSize(&callStack) < 1) return ERR_STACK_UNDERFLOW;
\* pc = pop(&callStack)
Ret(m) ==
    IF getStackSize(m.callStack) < 1 THEN Returns(m, ERR_STACK_UNDERFLOW)
    ELSE Returns([m EXCEPT !.pc = top(m.callStack), !.callStack = popped(m.callStack)],
                 RET_OPCODE)

\* StackMachine::processOperation(byte opcode), entered with pc = p;
\* inputValue is what scanf("%lg") stores (NaN when it reads nothing).
processOperation(op, p, inputValue) ==
    LET m    == Machine(p)
        size == getStackSize(stack)
        rhs  == stack[size]
        lhs  == stack[size - 1]
        rest == SubSeq(stack, 1, size - 2)
    IN
    IF ~PcAssertion(p) THEN Faults(m, "SIGABRT")
    ELSE IF op = IN_OPCODE THEN
        Returns([m EXCEPT !.stdout = Append(stdout, "> "),
                          !.stack  = push(stack, inputValue)], op)
    ELSE IF size < RequiredDepth(op) THEN Returns(m, ERR_STACK_UNDERFLOW)
    ELSE IF size < StackOperands(op) THEN Faults(m, "SIGABRT")
    ELSE IF op = OUT_OPCODE THEN
        Returns([m EXCEPT !.stdout = Append(stdout, FormatG(top(stack)) \o "\n"),
                          !.stack  = popped(stack)], op)
    ELSE IF op = POP_OPCODE THEN Returns([m EXCEPT !.stack = popped(stack)], op)
    ELSE IF op \in {ADD_OPCODE, SUB_OPCODE, MUL_OPCODE, DIV_OPCODE} THEN
        Leaves(Returns([m EXCEPT !.stack = push(rest, Arith(op, lhs, rhs))], op),
               Arith(op, lhs, rhs))
    ELSE IF op = SQRT_OPCODE THEN
        Leaves(Returns([m EXCEPT !.stack = push(popped(stack), DSqrt(top(stack)))], op),
               DSqrt(top(stack)))
    ELSE IF op = DUP_OPCODE THEN Returns([m EXCEPT !.stack = push(stack, top(stack))], op)
    ELSE IF op = RET_OPCODE THEN Ret(m)
    ELSE IF op = HLT_OPCODE THEN Returns(m, op)
    ELSE Returns(m, ERR_INVALID_OPERATION)

\* (int)operand
CastInt(operand, u) ==
    LET conv == IntOfDouble(operand) IN IF conv.ok THEN conv.v ELSE u.cast

\* (operand < 0) || ((int)operand >= ram.SIZE)
InvalidRamAddress(operand, u) == DLess(operand, Zero) \/ CastInt(operand, u) >= RAM_SIZE

\* StackMachine::processOperation(byte opcode, double& operand), entered with
\* pc = p.  The operand is registers[reg] when reg is a register number and a
\* local of the caller when reg = REGISTERS_NUMBER.
processOperationOperand(op, operand, reg, p, u) ==
    LET m    == Machine(p)
        addr == CastInt(operand, u)
    IN
    IF ~PcAssertion(p) THEN Faults(m, "SIGABRT")
    ELSE IF op \in {PUSH_OPCODE, PUSHR_OPCODE} THEN
        Returns([m EXCEPT !.stack = push(stack, operand)], op)
    ELSE IF op \in {PUSHM_OPCODE, PUSHRM_OPCODE} THEN
        (IF InvalidRamAddress(operand, u) THEN Returns(m, ERR_INVALID_RAM_ADDRESS)
         ELSE IF addr < 0 THEN Faults(m, "SIGSEGV")
         ELSE Leaves(Returns([m EXCEPT !.stack = push(stack, getAt(memory, addr, u))], op),
                     getAt(memory, addr, u)))
    ELSE IF op = POPR_OPCODE THEN
        (IF getStackSize(stack) < 1 THEN Faults(m, "SIGABRT")
         ELSE Returns([m EXCEPT !.stack = popped(stack),
                                !.registers = IF reg \in DOMAIN registers
                                              THEN [registers EXCEPT ![reg] = top(stack)]
                                              ELSE registers], op))
    ELSE IF op \in {POPM_OPCODE, POPRM_OPCODE} THEN
        (IF InvalidRamAddress(operand, u) THEN Returns(m, ERR_INVALID_RAM_ADDRESS)
         ELSE IF getStackSize(stack) < 1 THEN Faults(m, "SIGABRT")
         ELSE IF addr < 0 THEN Faults([m EXCEPT !.stack = popped(stack)], "SIGSEGV")
         ELSE Returns([m EXCEPT !.stack  = popped(stack),
                                !.memory = setAt(memory, addr, top(stack))], op))
    ELSE Returns(m, ERR_INVALID_OPERATION)

\* A comparison that takes the top of the stack for the left operand.
CompareTopFirst(op, lhs, rhs) ==
    CASE op = JMPE_OPCODE  -> FabsLessEps(DSub(rhs, lhs))
      [] op = JMPNE_OPCODE -> DSub(rhs, lhs).c # "nan" /\ ~FabsLessEps(DSub(rhs, lhs))
      [] op = JMPL_OPCODE  -> DLess(rhs, lhs)
      [] op = JMPLE_OPCODE -> DLessEq(rhs, lhs)
      [] op = JMPG_OPCODE  -> DLess(lhs, rhs)
      [] op = JMPGE_OPCODE -> DLessEq(lhs, rhs)

\* The comparison that lets the conditional jump be taken; every comparison
\* with a NaN is false, fabs(NaN) >= COMPARE_EPS included.
Compare(op, lhs, rhs) ==
    CASE op = JMPE_OPCODE  -> FabsLessEps(DSub(lhs, rhs))
      [] op = JMPNE_OPCODE -> DSub(lhs, rhs).c # "nan" /\ ~FabsLessEps(DSub(lhs, rhs))
      [] op = JMPL_OPCODE  -> DLess(lhs, rhs)
      [] op = JMPLE_OPCODE -> DLessEq(lhs, rhs)
      [] op = JMPG_OPCODE  -> DLess(rhs, lhs)
      [] op = JMPGE_OPCODE -> DLessEq(rhs, lhs)

\* A jump that does not test the pc it has computed.
JumpUnchecked(m, op, jumpOffset) == Returns([m EXCEPT !.pc = m.pc + jumpOffset], op)

\* pc += jumpOffset; if (pc < 0 || pc >= assemblySize) return ERR_INVALID_OPERATION
Jump(m, op, jumpOffset) ==
    LET target == m.pc + jumpOffset IN
    Returns([m EXCEPT !.pc = target],
            IF target < 0 \/ target >= assemblySize THEN ERR_INVALID_OPERATION ELSE op)

\* StackMachine::processJumpOperation, entered with pc = p
processJumpOperation(op, jumpOffset, p) ==
    LET m    == Machine(p)
        size == getStackSize(stack)
        rhs  == stack[size]
        lhs  == stack[size - 1]
        m2   == [m EXCEPT !.stack = SubSeq(stack, 1, size - 2)]
    IN
    IF ~PcAssertion(p) THEN Faults(m, "SIGABRT")
    ELSE IF op \notin {JMP_OPCODE, CALL_OPCODE} THEN
        (IF size < 2 THEN Returns(m, ERR_STACK_UNDERFLOW)
         ELSE IF op \in {JMPE_OPCODE, JMPNE_OPCODE} /\ Untracked(DSub(lhs, rhs))
              THEN Faults(m2, "untracked")
         ELSE IF Compare(op, lhs, rhs) THEN Jump(m2, op, jumpOffset)
         ELSE Returns(m2, op))
    ELSE IF op = CALL_OPCODE THEN
        Jump([m EXCEPT !.callStack = push(callStack, p)], op, jumpOffset)
    ELSE Jump(m, op, jumpOffset)

\* A dispatch that passes the delta on as it was read.
MinusNothing(v) == v

\* jumpOffset -= (int)sizeof(jumpOffset), in 32-bit arithmetic
MinusSizeofInt(v) ==
    IF v < INT_MIN + SIZEOF_INT THEN (v - INT_MIN) + (INT_MAX - SIZEOF_INT + 1)
    ELSE v - SIZEOF_INT

\* The number of bytes processNextOperation reads for this opcode byte.
BytesRead(op) ==
    IF op = ERR_INVALID_OPERATION \/ getOperationArityByOpcode(op) # 1 THEN SIZEOF_BYTE
    ELSE IF HasFlag(op, IS_REG_OP_MASK) THEN 2 * SIZEOF_BYTE
    ELSE IF isJumpOperation(op) THEN SIZEOF_BYTE + SIZEOF_INT
    ELSE SIZEOF_BYTE + SIZEOF_DOUBLE

\* AssemblyMachine::processNextOperation
processNextOperation(u, inputValue) ==
    LET op == getNextOperation(pc) IN
    IF ~PcAssertion(pc) THEN Faults(Machine(pc), "SIGABRT")
    ELSE IF ReadsPast(pc, BytesRead(op.value)) /\ u.past = "SIGSEGV"
         THEN Faults(Machine(pc), "SIGSEGV")
    ELSE IF op.value = ERR_INVALID_OPERATION
         THEN Returns(Machine(op.pc), ERR_INVALID_OPERATION)
    ELSE IF getOperationArityByOpcode(op.value) = 1 THEN
        (IF HasFlag(op.value, IS_REG_OP_MASK) THEN
            LET reg == getNextRegister(op.pc) IN
            IF reg.value = ERR_INVALID_REGISTER
            THEN Returns(Machine(reg.pc), ERR_INVALID_REGISTER)
            ELSE processOperationOperand(op.value, registers[reg.value], reg.value,
                                         reg.pc, u)
         ELSE IF isJumpOperation(op.value) THEN
            LET jumpOffset == getNextJumpOffset(op.pc) IN
            processJumpOperation(op.value, MinusSizeofInt(jumpOffset.value), jumpOffset.pc)
         ELSE
            LET operand == getNextOperand(op.pc) IN
            IF ~isfinite(operand.value)
            THEN Returns(Machine(operand.pc), ERR_INVALID_OPERATION)
            ELSE processOperationOperand(op.value, operand.value, REGISTERS_NUMBER,
                                         operand.pc, u))
    ELSE processOperation(op.value, op.pc, inputValue)

(***************************************************************************)
(* The states in which a function of stack-machine.cpp is not executing.   *)
(***************************************************************************)
AssemblerIdle ==
    /\ isResolvingLabels = FALSE
    /\ lineNo = 0
    /\ lineBuf = ""
    /\ currentByteOffset = 0
    /\ labelTable = <<>>
    /\ statusCode = 0
    /\ written = <<>>

\* The fields of a StackMachine before its constructor has run (pc and
\* assemblySize have the default member initializers of AssemblyMachine).
MachineIdle ==
    /\ assembly = <<>>
    /\ assemblySize = 0 - 1
    /\ pc = 0 - 1
    /\ registers = [r \in 0..(REGISTERS_NUMBER - 1) |-> Zero]
    /\ stack = <<>>
    /\ callStack = <<>>
    /\ memory = <<>>
    /\ opcode = 0
    /\ fetched = 0
    /\ fetchedAt = 0 - 1
    /\ stdout = <<>>
    /\ fault = "none"

DisassemblerIdle ==
    /\ lines = <<>>
    /\ labels = <<>>
    /\ disOffset = 0

(***************************************************************************)
(* run(): the constructor of the machine, then the do-while loop.          *)
(***************************************************************************)
\* StackMachine stackMachine(inputFileName);
\* if (stackMachine.getAssemblySize() < 0) return ERR_INVALID_FILE;
RunStart ==
    /\ task = "run"
    /\ exitCode = NotReturned
    /\ IF Len(image) = 0
       THEN /\ exitCode' = ERR_INVALID_FILE
            /\ task' = "done"
            /\ UNCHANGED <<assembly, assemblySize, pc>>
       ELSE /\ assembly' = image
            /\ assemblySize' = Len(image)
            /\ pc' = 0
            /\ task' = "running"
            /\ UNCHANGED exitCode
    /\ UNCHANGED <<registers, stack, callStack, memory, opcode, fetched, fetchedAt,
                   stdout, fault>>
    /\ UNCHANGED <<fileVars, asmVars, disVars, firstImage>>

\* Values scanf("%lg") may store for IN; NaN stands for input that does not parse.
InputValues == {D(7), NaN}

\* Bound on the depth of the operand stack and of the call stack.
MaxDepth == 4

\* Bound on the number of writes to stdout in a run.
MaxOutput == 6

\* How processNextOperation dispatches the byte at pc.
Dispatch(op) ==
    IF op = ERR_INVALID_OPERATION \/ getOperationArityByOpcode(op) = ERR_INVALID_OPERATION
    THEN "invalid"
    ELSE IF getOperationArityByOpcode(op) = 0 THEN "no operand"
    ELSE IF HasFlag(op, IS_REG_OP_MASK) THEN "register"
    ELSE IF isJumpOperation(op) THEN "jump"
    ELSE "immediate"

\* One iteration of the do-while loop of run(): processNextOperation, then
\* the test that ends the loop.
Iterate(kind) ==
    /\ task = "running"
    /\ fault = "none"
    /\ Dispatch(ReadByte(pc)) = kind
    /\ \E m \in {processNextOperation(u, inputValue) : u \in UB, inputValue \in InputValues} :
         /\ m.fault # "untracked"
         /\ Len(m.stack) <= MaxDepth
         /\ Len(m.callStack) <= MaxDepth
         /\ Len(m.stdout) <= MaxOutput
         /\ fetched' = ReadByte(pc)
         /\ fetchedAt' = pc
         /\ pc' = m.pc
         /\ stack' = m.stack
         /\ callStack' = m.callStack
         /\ registers' = m.registers
         /\ memory' = m.memory
         /\ stdout' = m.stdout
         /\ fault' = m.fault
         /\ opcode' = IF m.fault = "none" THEN m.ret ELSE opcode
         /\ IF m.fault = "none" /\ (m.ret = HLT_OPCODE \/ isError(m.ret))
            THEN exitCode' = m.ret /\ task' = "done"
            ELSE UNCHANGED <<exitCode, task>>
    /\ UNCHANGED <<assembly, assemblySize>>
    /\ UNCHANGED <<fileVars, asmVars, disVars, firstImage>>

IterateInvalid   == Iterate("invalid")
IterateNoOperand == Iterate("no operand")
IterateRegister  == Iterate("register")
IterateJump      == Iterate("jump")
IterateImmediate == Iterate("immediate")

RunLoop ==
    IterateInvalid \/ IterateNoOperand \/ IterateRegister \/ IterateJump \/ IterateImmediate

(***************************************************************************)
(* Images the interpreter is run on: the encodings the assembler emits     *)
(* for an instruction, and byte sequences it never emits.                  *)
(***************************************************************************)
Instr(op)            == <<op>>
InstrReg(op, reg)    == <<op, reg>>
InstrImm(op, x)      == <<op>> \o BytesOfDouble(x)
InstrJump(op, delta) == <<op>> \o BytesOfInt(delta)

AX == 0
BX == 1

\* Number of setup snippets in an image.
MaxSetup == 1

RECURSIVE Concat(_)
Concat(seqs) == IF seqs = <<>> THEN <<>> ELSE Head(seqs) \o Concat(Tail(seqs))

\* An image is the empty file, or setup snippets (instruction sequences that
\* bring the machine into a state of interest), a probed instruction and a
\* tail (nothing, HLT, or the first byte of a PUSH).  The probes take bytes
\* that are no opcode (0xFF, a byte with no mnemonic, ADD with REG_FLAG, JMP
\* with RAM_FLAG, PUSH with an unused bit), register bytes inside and outside
\* the register file, addresses inside and outside the RAM and the int range,
\* and deltas that stay inside and leave the image.
RunImages ==
    LET SetupSnippets ==
            { InstrImm(PUSH_OPCODE, D(1)),
              InstrImm(PUSH_OPCODE, D(2)) \o InstrImm(PUSH_OPCODE, D(2)),
              InstrImm(PUSH_OPCODE, D(1)) \o InstrImm(PUSH_OPCODE, D(2)),
              InstrImm(PUSH_OPCODE, D(2)) \o InstrImm(PUSH_OPCODE, D(1)),
              InstrImm(PUSH_OPCODE, D(3)) \o InstrImm(PUSH_OPCODE, D(1))
                  \o InstrImm(PUSH_OPCODE, D(2)),
              InstrImm(PUSH_OPCODE, DFrac(1, 31)) \o InstrImm(PUSH_OPCODE, D(0)),
              InstrImm(PUSH_OPCODE, D(1024)) \o InstrReg(POPR_OPCODE, AX),
              InstrImm(PUSH_OPCODE, D(1)) \o InstrImm(PUSH_OPCODE, D(0)) \o Instr(DIV_OPCODE)
                  \o InstrReg(POPR_OPCODE, BX),
              InstrImm(PUSH_OPCODE, D(5)) \o InstrImm(POPM_OPCODE, D(8)),
              InstrImm(PUSH_OPCODE, D(5)) \o InstrImm(POPM_OPCODE, D(1020)),
              InstrImm(PUSH_OPCODE, D(5)) \o InstrImm(POPM_OPCODE, D(8))
                  \o InstrImm(PUSH_OPCODE, D(1)) \o InstrImm(POPM_OPCODE, D(9)),
              InstrImm(PUSH_OPCODE, D(8)) \o InstrReg(POPR_OPCODE, AX)
                  \o InstrImm(PUSH_OPCODE, D(5)) \o InstrReg(POPRM_OPCODE, AX),
              InstrJump(CALL_OPCODE, SIZEOF_INT),
              InstrJump(CALL_OPCODE, SIZEOF_INT) \o InstrJump(CALL_OPCODE, SIZEOF_INT),
              Instr(IN_OPCODE) }
        InvalidBytes == {ERR_INVALID_OPERATION, 7, ADD_OPCODE + IS_REG_OP_MASK,
                         JMP_OPCODE + IS_RAM_OP_MASK, PUSH_OPCODE + 16}
        RegisterBytes == {AX, BX, REGISTERS_NUMBER, 255}
        AddressValues ==
            { D(0), D(8), D(1016), D(1020), D(1023), DFrac(2047, 1), D(1024), D(0 - 1),
              DFrac(0 - 1, 1), Mk(0, 1, 31), Mk(1, 1, 31), Mk(0, 1, 40) }
        JumpDeltas == {0 - 1, 0, SIZEOF_INT, 0 - 6, 100}
        ProbeInstructions ==
            {Instr(op) : op \in NullaryOpcodes \cup InvalidBytes}
            \cup {InstrImm(PUSH_OPCODE, x) : x \in {D(3), Inf(0), NaN}}
            \cup {InstrImm(op, x) : op \in {PUSHM_OPCODE, POPM_OPCODE},
                                    x \in AddressValues \cup {Inf(1), NaN}}
            \cup {InstrReg(op, reg) :
                      op \in {PUSHR_OPCODE, POPR_OPCODE, PUSHRM_OPCODE, POPRM_OPCODE},
                      reg \in RegisterBytes}
            \cup {InstrJump(op, delta) : op \in {op \in UnaryOpcodes : isJumpOperation(op)},
                                         delta \in JumpDeltas}
        ImageTails == {<<>>, Instr(HLT_OPCODE), Instr(PUSH_OPCODE)}
    IN  {<<>>} \cup
        { Concat(setup) \o probe \o tail :
            setup \in UNION {[1..n -> SetupSnippets] : n \in 0..MaxSetup},
            probe \in ProbeInstructions,
            tail  \in ImageTails }

InitRun ==
    /\ task = "run"
    /\ image \in RunImages
    /\ source = <<>>
    /\ text = <<>>
    /\ AssemblerIdle
    /\ MachineIdle
    /\ DisassemblerIdle
    /\ exitCode = NotReturned
    /\ firstImage = <<>>

NextRun == RunStart \/ RunLoop

SpecRun == InitRun /\ [][NextRun]_vars

\* ENABLED <<RunLoop>>_vars, written out as a state predicate: some outcome
\* of processNextOperation is within the bounds and changes the state.
RunCanStep ==
    /\ task = "running"
    /\ fault = "none"
    /\ \E m \in {processNextOperation(u, inputValue) : u \in UB, inputValue \in InputValues} :
         /\ m.fault # "untracked"
         /\ Len(m.stack) <= MaxDepth
         /\ Len(m.callStack) <= MaxDepth
         /\ Len(m.stdout) <= MaxOutput
         /\ <<ReadByte(pc), pc, m.pc, m.stack, m.callStack, m.registers, m.memory,
              m.stdout, m.fault, IF m.fault = "none" THEN m.ret ELSE opcode,
              m.fault = "none" /\ (m.ret = HLT_OPCODE \/ isError(m.ret))>>
                # <<fetched, fetchedAt, pc, stack, callStack, registers, memory,
                    stdout, "none", opcode, FALSE>>

\* run() is sequential code: the constructor and every iteration of the
\* do-while loop are executed as soon as they can be.  The second conjunct
\* is WF_vars(RunLoop) with RunCanStep for ENABLED <<RunLoop>>_vars.
SpecRunFair ==
    /\ SpecRun
    /\ WF_vars(RunStart)
    /\ []<>(~RunCanStep) \/ []<><<RunLoop>>_vars

(***************************************************************************)
(* Parsing helpers of the assembler (stack-machine-utils.cpp).  They work  *)
(* on the line buffer b and on indices into it, as the code works on       *)
(* char* pointers into the buffer.                                         *)
(***************************************************************************)
RECURSIVE SkipSpaces(_, _)
\* while (isspace(*s)) ++s
SkipSpaces(b, i) == IF isspace(Char(b, i)) THEN SkipSpaces(b, i + 1) ELSE i

RECURSIVE BackOverSpaces(_, _)
\* while (isspace(*end)) --end
BackOverSpaces(b, end) == IF isspace(Char(b, end)) THEN BackOverSpaces(b, end - 1) ELSE end

\* trim(char*& s): the buffer and the moved pointer
trim(b, i) ==
    Eval(SkipSpaces(b, i), LAMBDA s :
         IF Char(b, s) = NUL THEN [b |-> b, s |-> s]
         ELSE [b |-> SetChar(b, BackOverSpaces(b, EndOfString(b, s) - 1) + 1, NUL), s |-> s])

RECURSIVE LabelEnd(_, _, _)
\* while (end > token && isspace(*end) && (*end != ':')) --end
LabelEnd(b, token, end) ==
    IF end > token /\ isspace(Char(b, end)) /\ Char(b, end) # ":"
    THEN LabelEnd(b, token, end - 1) ELSE end

\* isLabel(const char* token)
isLabel(b, token) ==
    LET end == LabelEnd(b, token, token + strlen(b, token) - 1) IN
    /\ end >= token
    /\ Char(b, end) = ":"
    /\ \A k \in token..(end - 1) : ~isspace(Char(b, k))

RECURSIVE TokenEnd(_, _)
\* while (!isspace(*end) && (*end != '\0')) ++end
TokenEnd(b, end) ==
    IF ~isspace(Char(b, end)) /\ Char(b, end) # NUL THEN TokenEnd(b, end + 1) ELSE end

\* getNextToken(char*& line): the buffer, the token and the moved pointer
getNextToken(b, line) ==
    Eval(TokenEnd(b, line), LAMBDA end :
         [b |-> SetChar(b, end, NUL), token |-> line, line |-> end + 1])

RECURSIVE ForwardOverSpaces(_, _, _)
\* while (start < end && isspace(*start)) ++start
ForwardOverSpaces(b, start, end) ==
    IF start < end /\ isspace(Char(b, start)) THEN ForwardOverSpaces(b, start + 1, end)
    ELSE start

RECURSIVE BackwardOverSpaces(_, _, _)
\* while (end > start && isspace(*end)) --end
BackwardOverSpaces(b, start, end) ==
    IF end > start /\ isspace(Char(b, end)) THEN BackwardOverSpaces(b, start, end - 1)
    ELSE end

\* asRamAccess(char*& token): whether the token is bracketed, the buffer and
\* the moved token
asRamAccess(b, token) ==
    Eval(token + strlen(b, token) - 1, LAMBDA last :
    Eval(ForwardOverSpaces(b, token, last), LAMBDA start :
    Eval(BackwardOverSpaces(b, start, last), LAMBDA end :
         IF Char(b, start) # "[" \/ Char(b, end) # "]"
         THEN [isRam |-> FALSE, b |-> b, token |-> token]
         ELSE [isRam |-> TRUE, b |-> SetChar(b, end, NUL), token |-> start + 1])))

getOpcodeByOperationName(operation) ==
    CASE operation = "IN"    -> IN_OPCODE
      [] operation = "OUT"   -> OUT_OPCODE
      [] operation = "POP"   -> POP_OPCODE
      [] operation = "PUSH"  -> PUSH_OPCODE
      [] operation = "ADD"   -> ADD_OPCODE
      [] operation = "SUB"   -> SUB_OPCODE
      [] operation = "MUL"   -> MUL_OPCODE
      [] operation = "DIV"   -> DIV_OPCODE
      [] operation = "SQRT"  -> SQRT_OPCODE
      [] operation = "DUP"   -> DUP_OPCODE
      [] operation = "HLT"   -> HLT_OPCODE
      [] operation = "JMP"   -> JMP_OPCODE
      [] operation = "JMPNE" -> JMPNE_OPCODE
      [] operation = "JMPE"  -> JMPE_OPCODE
      [] operation = "JMPL"  -> JMPL_OPCODE
      [] operation = "JMPLE" -> JMPLE_OPCODE
      [] operation = "JMPG"  -> JMPG_OPCODE
      [] operation = "JMPGE" -> JMPGE_OPCODE
      [] operation = "RET"   -> RET_OPCODE
      [] operation = "CALL"  -> CALL_OPCODE
      [] OTHER               -> ERR_INVALID_OPERATION

getRegisterNumberByName(regName) ==
    CASE regName = "AX" -> 0
      [] regName = "BX" -> 1
      [] regName = "CX" -> 2
      [] regName = "DX" -> 3
      [] OTHER          -> ERR_INVALID_REGISTER

\* parseOperation(char*& line)
parseOperation(b, line) ==
    Eval(getNextToken(b, line), LAMBDA t :
         [b |-> t.b, line |-> t.line,
          opcode |-> getOpcodeByOperationName(CStr(t.b, t.token))])

\* toDouble: strtod consumed the whole nonempty string
toDouble(string) ==
    Eval(strtod(string, 0), LAMBDA r :
         [ok |-> r.end = Len(string) /\ r.end # 0, value |-> r.value])

\* parseOperand(char*& line)
parseOperand(b, line) ==
    Eval(getNextToken(b, line), LAMBDA t :
    Eval(toDouble(CStr(t.b, t.token)), LAMBDA r :
         [b |-> t.b, operand |-> IF r.ok THEN r.value ELSE NaN]))

\* parseRegister(char*& line)
parseRegister(b, line) ==
    Eval(getNextToken(b, line), LAMBDA t :
         [b |-> t.b, reg |-> getRegisterNumberByName(CStr(t.b, t.token))])

(***************************************************************************)
(* class LabelTable: labels, a map from label names to offsets.            *)
(***************************************************************************)
RECURSIVE LabelNameEnd(_, _)
LabelNameEnd(b, i) == IF Char(b, i) \in {":", NUL} THEN i ELSE LabelNameEnd(b, i + 1)

\* the name addLabel copies from the line: the characters before the first ':'
LabelName(b, line) == SubSeq(b, line + 1, LabelNameEnd(b, line))

\* LabelTable::getLabelOffset
getLabelOffset(table, labelName) ==
    IF labelName \in DOMAIN table THEN table[labelName] ELSE 0 - 1

\* A table that takes the offset of the later definition.
addLabelOverwriting(table, b, line, labelOffset) ==
    Eval(LabelName(b, line), LAMBDA name :
         [ret    |-> IF name \in DOMAIN table THEN ERR_INVALID_LABEL ELSE 0,
          labels |-> (name :> labelOffset) @@ table])

\* LabelTable::addLabel: the value returned and the table left
addLabel(table, b, line, labelOffset) ==
    Eval(LabelName(b, line), LAMBDA name :
         IF name \in DOMAIN table
         THEN [ret |-> ERR_INVALID_LABEL, labels |-> table]
         ELSE [ret |-> 0, labels |-> (name :> labelOffset) @@ table])

(***************************************************************************)
(* assemble(input, output, labelTable): one run over the source.  The run *)
(* state st holds the locals (b: the line buffer, offset:                  *)
(* currentByteOffset, status: statusCode, resolving: isResolvingLabels),   *)
(* the label table, the bytes put into the output file (out) and, for      *)
(* each instruction line of the second run, where its bytes went.          *)
(***************************************************************************)
\* A write that counts only the bytes that reach a file.
asmWriteCountingOutput(st, bytes) ==
    [st EXCEPT !.offset = IF st.resolving THEN @ ELSE @ + Len(bytes),
               !.out    = IF st.resolving THEN @ ELSE @ \o bytes]

\* asmWrite: the offset always advances, bytes are written when output != nullptr
asmWrite(st, bytes) ==
    [st EXCEPT !.offset = @ + Len(bytes),
               !.out    = IF st.resolving THEN @ ELSE @ \o bytes]

\* A delta measured from the opcode byte, one byte before currentByteOffset.
JumpDeltaFromOpcodeByte(labelOffset, byteOffset) == labelOffset - (byteOffset - SIZEOF_BYTE)

\* labelOffset -= currentByteOffset
JumpDelta(labelOffset, byteOffset) == labelOffset - byteOffset

\* The else branch of the loop body: an instruction line, at index line of b.
AssembleInstruction(st, b, line) ==
    Eval(parseOperation(b, line), LAMBDA op :
    IF op.opcode = ERR_INVALID_OPERATION
    THEN [st EXCEPT !.b = op.b, !.status = ERR_INVALID_OPERATION]
    ELSE
    Eval(getNextToken(op.b, op.line), LAMBDA operand :
    Eval(asRamAccess(operand.b, operand.token), LAMBDA ram :
    LET opcode1 == IF ram.isRam THEN SetFlag(op.opcode, IS_RAM_OP_MASK) ELSE op.opcode
        opcode2 == SetFlag(opcode1, IS_REG_OP_MASK)
        name    == CStr(ram.b, ram.token)
        s0      == [st EXCEPT !.b = ram.b]
        opened  == asmWrite(s0, <<opcode1>>)
    IN
    IF getRegisterNumberByName(name) # ERR_INVALID_REGISTER THEN
        (IF getOperationArityByOpcode(opcode2) = ERR_INVALID_OPERATION
         THEN [s0 EXCEPT !.status = ERR_INVALID_OPERATION]
         ELSE Eval(parseRegister(ram.b, ram.token), LAMBDA reg :
                IF reg.reg = ERR_INVALID_REGISTER
                THEN [asmWrite(s0, <<opcode2>>) EXCEPT !.b = reg.b,
                                                       !.status = ERR_INVALID_REGISTER]
                ELSE asmWrite([s0 EXCEPT !.b = reg.b], <<opcode2, reg.reg>>)))
    ELSE IF getOperationArityByOpcode(opcode1) = 1 THEN
        (IF isJumpOperation(opcode1) THEN
            (IF st.resolving THEN asmWrite(opened, BytesOfInt(0))
             ELSE IF getLabelOffset(st.labels, name) < 0
             THEN [opened EXCEPT !.status = ERR_INVALID_LABEL]
             ELSE asmWrite(opened, BytesOfInt(JumpDelta(getLabelOffset(st.labels, name),
                                                        opened.offset))))
         ELSE Eval(parseOperand(ram.b, ram.token), LAMBDA value :
                IF ~isfinite(value.operand)
                THEN [opened EXCEPT !.b = value.b, !.status = ERR_INVALID_OPERATION]
                ELSE asmWrite([opened EXCEPT !.b = value.b], BytesOfDouble(value.operand))))
    ELSE opened)))

\* fgets(line, MAX_LINE_LENGTH, input): the line and its terminator overwrite
\* the start of the buffer
fgets(b, str) == str \o NUL \o SubSeq(b, Len(str) + 2, Len(b))

\* One iteration of the while loop, for source line number k.
AssembleLine(st, str, k) ==
    Eval(trim(fgets(st.b, str), 0), LAMBDA t :
    Eval([st EXCEPT !.b = t.b, !.read = k], LAMBDA s1 :
         IF strlen(t.b, t.s) = 0 THEN s1
         ELSE IF isLabel(t.b, t.s) THEN
             (IF st.resolving
              THEN Eval(addLabel(st.labels, t.b, t.s, st.offset), LAMBDA add :
                        [s1 EXCEPT !.labels = add.labels, !.status = add.ret])
              ELSE s1)
         ELSE Eval(AssembleInstruction(s1, t.b, t.s), LAMBDA done :
                   IF st.resolving THEN done
                   ELSE [done EXCEPT !.written =
                           Append(@, [line |-> k, at |-> st.offset,
                                      bytes |-> SubSeq(done.out, Len(st.out) + 1,
                                                       Len(done.out))])])))

RECURSIVE AssembleLines(_, _, _)
\* The while loop from source line k on; a break leaves status # 0.
AssembleLines(st, src, k) ==
    IF k > Len(src) \/ st.status # 0 THEN st
    ELSE Eval(AssembleLine(st, src[k], k), LAMBDA next : AssembleLines(next, src, k + 1))

\* A run that starts counting at 1 when it writes the file.
assembleRunFromOne(src, table, resolving) ==
    Eval(AssembleLines([b |-> "", offset |-> IF resolving THEN 0 ELSE 1, status |-> 0,
                        resolving |-> resolving, labels |-> table, out |-> <<>>,
                        written |-> <<>>, read |-> 0],
                       src, 1),
         LAMBDA st : IF isLabel(st.b, 0) THEN [st EXCEPT !.status = ERR_INVALID_LABEL]
                     ELSE st)

\* The whole run: the loop, then the test for a dangling label.
assembleRun(src, table, resolving) ==
    Eval(AssembleLines([b |-> "", offset |-> 0, status |-> 0, resolving |-> resolving,
                        labels |-> table, out |-> <<>>, written |-> <<>>, read |-> 0],
                       src, 1),
         LAMBDA st : IF isLabel(st.b, 0) THEN [st EXCEPT !.status = ERR_INVALID_LABEL]
                     ELSE st)

(***************************************************************************)
(* assemble(inputFileName, outputFileName): both runs.                    *)
(***************************************************************************)
\* The files are opened (the output file is created empty) and the label
\* table is constructed.
AssembleStart ==
    /\ task = "assemble"
    /\ task' = "resolve labels"
    /\ image' = <<>>
    /\ labelTable' = <<>>
    /\ exitCode' = NotReturned
    /\ UNCHANGED <<source, text, isResolvingLabels, lineNo, lineBuf, currentByteOffset,
                   statusCode, written>>
    /\ UNCHANGED <<runVars, disVars, firstImage>>

\* byte statusCode = resolveLabels(input, labelTable); an error ends assemble.
ResolveLabels ==
    /\ task = "resolve labels"
    /\ \E st \in {assembleRun(source, labelTable, TRUE)} :
        /\ isResolvingLabels' = TRUE
        /\ lineNo' = st.read
        /\ lineBuf' = st.b
        /\ currentByteOffset' = st.offset
        /\ labelTable' = st.labels
        /\ statusCode' = st.status
        /\ IF isError(st.status)
           THEN exitCode' = st.status /\ task' = "done"
           ELSE UNCHANGED exitCode /\ task' = "second run"
    /\ UNCHANGED <<fileVars, written, runVars, disVars, firstImage>>

\* rewind(input); statusCode = assemble(input, output, labelTable); return statusCode
AssembleSecondRun ==
    /\ task = "second run"
    /\ \E st \in {assembleRun(source, labelTable, FALSE)} :
        /\ isResolvingLabels' = FALSE
        /\ lineNo' = st.read
        /\ lineBuf' = st.b
        /\ currentByteOffset' = st.offset
        /\ labelTable' = st.labels
        /\ statusCode' = st.status
        /\ written' = st.written
        /\ image' = st.out
        /\ exitCode' = st.status
        /\ task' = "done"
    /\ UNCHANGED <<source, text, runVars, disVars, firstImage>>

Assemble == AssembleStart \/ ResolveLabels \/ AssembleSecondRun

(***************************************************************************)
(* The disassembler: tables, file readers and class DisassemblyBuffer      *)
(* (lines: pairs of a text and the size of the instruction; labels: a map  *)
(* from offsets to generated names).                                       *)
(***************************************************************************)
\* The nullptr the name tables return for an unknown code.
nullptr == ""

getOperationNameByOpcode(op) ==
    CASE op = IN_OPCODE    -> "IN"
      [] op = OUT_OPCODE   -> "OUT"
      [] op \in {POP_OPCODE, POPR_OPCODE, POPM_OPCODE, POPRM_OPCODE}     -> "POP"
      [] op \in {PUSH_OPCODE, PUSHR_OPCODE, PUSHM_OPCODE, PUSHRM_OPCODE} -> "PUSH"
      [] op = ADD_OPCODE   -> "ADD"
      [] op = SUB_OPCODE   -> "SUB"
      [] op = MUL_OPCODE   -> "MUL"
      [] op = DIV_OPCODE   -> "DIV"
      [] op = SQRT_OPCODE  -> "SQRT"
      [] op = DUP_OPCODE   -> "DUP"
      [] op = HLT_OPCODE   -> "HLT"
      [] op = JMP_OPCODE   -> "JMP"
      [] op = JMPNE_OPCODE -> "JMPNE"
      [] op = JMPE_OPCODE  -> "JMPE"
      [] op = JMPL_OPCODE  -> "JMPL"
      [] op = JMPLE_OPCODE -> "JMPLE"
      [] op = JMPG_OPCODE  -> "JMPG"
      [] op = JMPGE_OPCODE -> "JMPGE"
      [] op = RET_OPCODE   -> "RET"
      [] op = CALL_OPCODE  -> "CALL"
      [] OTHER             -> nullptr

getRegisterNameByNumber(regNumber) ==
    CASE regNumber = 0 -> "AX"
      [] regNumber = 1 -> "BX"
      [] regNumber = 2 -> "CX"
      [] regNumber = 3 -> "DX"
      [] OTHER         -> nullptr

\* (byte)fgetc(input) at file position pos; EOF (-1) becomes 0xFF
fgetc(img, pos) == IF pos < Len(img) THEN img[pos + 1] ELSE 255

\* asmReadOperand: the double at file position pos
asmReadOperand(img, pos) ==
    DoubleOfBytes([k \in 1..SIZEOF_DOUBLE |-> fgetc(img, pos + (k - 1))])

\* asmReadRegister
asmReadRegister(img, pos) ==
    IF fgetc(img, pos) >= REGISTERS_NUMBER THEN ERR_INVALID_REGISTER ELSE fgetc(img, pos)

\* asmReadJumpOffset
asmReadJumpOffset(img, pos) ==
    IntOfBytes([k \in 1..SIZEOF_INT |-> fgetc(img, pos + (k - 1))])

\* DisassemblyBuffer::writeOperation
writeOperation(buf, operation) ==
    [buf EXCEPT !.lines = Append(@, [text |-> operation, size |-> SIZEOF_BYTE])]

\* strcat(lines.back().first, str); lines.back().second += size
AppendToLastLine(buf, str, size) ==
    [buf EXCEPT !.lines[Len(buf.lines)] =
        [text |-> @.text \o str, size |-> @.size + size]]

\* DisassemblyBuffer::writeOperand
writeOperand(buf, operand, isRamOperation) ==
    AppendToLastLine(buf, IF isRamOperation THEN " [" \o FormatG(operand) \o "]"
                          ELSE " " \o FormatG(operand), SIZEOF_DOUBLE)

\* DisassemblyBuffer::writeRegister
writeRegister(buf, regName, isRamOperation) ==
    AppendToLastLine(buf, IF isRamOperation THEN " [" \o regName \o "]" ELSE " " \o regName,
                     SIZEOF_BYTE)

\* A buffer that counts its labels from 1.
WithLabelFromOne(labs, labelOffset) ==
    IF labelOffset \in DOMAIN labs THEN labs
    ELSE (labelOffset :> ("L" \o ToString(Cardinality(DOMAIN labs) + 1))) @@ labs

\* DisassemblyBuffer::getLabelByOffset: the labels after the call
WithLabel(labs, labelOffset) ==
    IF labelOffset \in DOMAIN labs THEN labs
    ELSE (labelOffset :> ("L" \o ToString(Cardinality(DOMAIN labs)))) @@ labs

\* DisassemblyBuffer::writeJumpLabelArgument
writeJumpLabelArgument(buf, labelOffset) ==
    Eval(WithLabel(buf.labels, labelOffset), LAMBDA labs :
         AppendToLastLine([buf EXCEPT !.labels = labs], " " \o labs[labelOffset],
                          SIZEOF_INT))

RECURSIVE FlushLines(_, _, _, _)
\* The for loop of flushToFile from line k on: the text written, the labels
\* left and the offset reached.
FlushLines(buf, k, byteOffset, out) ==
    IF k > Len(buf.lines)
    THEN [labels |-> buf.labels, offset |-> byteOffset, out |-> out]
    ELSE LET here == byteOffset \in DOMAIN buf.labels
             labs == [o \in DOMAIN buf.labels \ {byteOffset} |-> buf.labels[o]]
             head == IF here THEN <<buf.labels[byteOffset] \o ":\n">> ELSE <<>>
         IN  Eval([buf |-> [buf EXCEPT !.labels = labs],
                   offset |-> byteOffset + buf.lines[k].size,
                   out |-> out \o head \o <<buf.lines[k].text \o "\n">>],
                  LAMBDA next : FlushLines(next.buf, k + 1, next.offset, next.out))

\* DisassemblyBuffer::flushToFile: the value returned and the lines written
flushToFile(buf) ==
    Eval(FlushLines(buf, 1, 0, <<>>), LAMBDA r :
         [ret |-> IF DOMAIN r.labels \ {r.offset} # {} THEN ERR_INVALID_LABEL ELSE 0,
          out |-> IF r.offset \in DOMAIN r.labels
                  THEN r.out \o <<r.labels[r.offset] \o ":\n">> ELSE r.out])

\* The body of the while loop of disassemble for the opcode op read last:
\* the state left and whether the loop goes on (no break was taken).  The
\* offset counts the opcode read at the end of the body.
DisassembleInstruction(img, d) ==
    LET op      == fgetc(img, d.offset - SIZEOF_BYTE)
        named   == writeOperation(d.buf, getOperationNameByOpcode(op))
        reg     == asmReadRegister(img, d.offset)
        target  == asmReadJumpOffset(img, d.offset) + (d.offset + SIZEOF_INT) - SIZEOF_INT
        operand == asmReadOperand(img, d.offset)
        isRam   == HasFlag(op, IS_RAM_OP_MASK)
    IN
    IF getOperationNameByOpcode(op) = nullptr
    THEN [d EXCEPT !.status = ERR_INVALID_OPERATION]
    ELSE IF HasFlag(op, IS_REG_OP_MASK) THEN
        (IF getRegisterNameByNumber(reg) = nullptr
         THEN [d EXCEPT !.buf = named, !.offset = @ + SIZEOF_BYTE,
                        !.status = ERR_INVALID_REGISTER]
         ELSE [d EXCEPT !.buf = writeRegister(named, getRegisterNameByNumber(reg), isRam),
                        !.offset = @ + 2 * SIZEOF_BYTE])
    ELSE IF getOperationArityByOpcode(op) = 1 THEN
        (IF isJumpOperation(op) THEN
            (IF target < 0
             THEN [d EXCEPT !.buf = named, !.offset = @ + SIZEOF_INT,
                            !.status = ERR_INVALID_LABEL]
             ELSE [d EXCEPT !.buf = writeJumpLabelArgument(named, target),
                            !.offset = @ + SIZEOF_INT + SIZEOF_BYTE])
         ELSE Eval(operand, LAMBDA x :
                IF ~isfinite(x)
                THEN [d EXCEPT !.buf = named, !.offset = @ + SIZEOF_DOUBLE,
                               !.status = ERR_INVALID_OPERATION]
                ELSE [d EXCEPT !.buf = writeOperand(named, x, isRam),
                               !.offset = @ + SIZEOF_DOUBLE + SIZEOF_BYTE]))
    ELSE [d EXCEPT !.buf = named, !.offset = @ + SIZEOF_BYTE]

RECURSIVE DisassembleLoop(_, _)
\* The while loop of disassemble.  d.offset is currentByteOffset: the opcode
\* read last is the byte before it, and feof holds when it was read past the
\* end of the file.
DisassembleLoop(img, d) ==
    IF d.offset - SIZEOF_BYTE >= Len(img) \/ d.status # 0 THEN d
    ELSE Eval(DisassembleInstruction(img, d), LAMBDA next : DisassembleLoop(img, next))

\* disassemble(inputFileName, outputFileName): the output file is created
\* empty, the image is read into the buffer, and the buffer is flushed when
\* no error was met.
Disassemble ==
    /\ task = "disassemble"
    /\ \E d \in {DisassembleLoop(image, [buf |-> [lines |-> <<>>, labels |-> <<>>],
                                          offset |-> SIZEOF_BYTE, status |-> 0])} :
       \E f \in {flushToFile(d.buf)} :
           /\ lines' = d.buf.lines
           /\ labels' = d.buf.labels
           /\ disOffset' = d.offset
           /\ text' = IF d.status = 0 THEN f.out ELSE <<>>
           /\ exitCode' = IF d.status = 0 THEN f.ret ELSE d.status
    /\ task' = "done"
    /\ UNCHANGED <<source, image, asmVars, runVars, firstImage>>

(***************************************************************************)
(* main(): each invocation of the program runs one of assemble,            *)
(* disassemble and run on the files the earlier invocations left.          *)
(***************************************************************************)
\* Number of statements in a source file.
MaxBlocks == 3

\* Source files are made of statements: label lines (one with blanks around
\* it), jumps and a call to labels defined before or after them, a
\* conditional jump that is taken and one that is not, every operand form, a
\* blank line, an unknown mnemonic, a RAM operand on an operation without
\* one, an immediate of seven significant digits, and a jump with its
\* operand in brackets; and sources of one to three lines that probe an
\* operand: a register where the mnemonic takes none, names that are no
\* register, an operand behind POP, literals that are NaN, infinite or not
\* fully a number, and immediates in brackets.
Sources ==
    LET SourceBlocks ==
            { <<"A:\n">>, <<"B:\n">>, <<" A: \n">>,
              <<"JMP A\n">>, <<"CALL B\n">>,
              <<"PUSH 2\n", "PUSH 2\n", "JMPE B\n">>,
              <<"PUSH 1\n", "PUSH AX\n", "JMPL A\n">>,
              <<"HLT\n">>, <<"RET\n">>, <<"\n">>, <<"FOO\n">>,
              <<"POP [BX]\n">>, <<"ADD [8]\n">>, <<"PUSH 1234567\n">>,
              <<"JMP [B]\n">> }
        OperandLines ==
            { "ADD AX\n", "PUSH EX\n", "POP EX\n", "POP [ax]\n", "POP 5\n",
              "PUSH nan\n", "PUSH 1e999\n", "PUSH -inf\n", "PUSH 2x\n",
              "PUSH [nan]\n", "POP [1e999]\n", "PUSH [5]\n", "POP [8]\n" }
    IN  { Concat(blocks) : blocks \in UNION {[1..n -> SourceBlocks] : n \in 0..MaxBlocks} }
        \cup { before \o <<line>> \o after : before \in {<<>>, <<"PUSH 2\n">>},
                                              line \in OperandLines,
                                              after \in {<<>>, <<"HLT\n">>} }
        \cup { <<"START:\n", "IN\n", "OUT\n", "JMP START\n", "HLT\n">> }

InitAsm ==
    /\ task = "assemble"
    /\ source \in Sources
    /\ image = <<>>
    /\ text = <<>>
    /\ AssemblerIdle
    /\ MachineIdle
    /\ DisassemblerIdle
    /\ exitCode = NotReturned
    /\ firstImage = <<>>

\* case RUN: return run(args.inputFile), on the image of a finished assembly
InvokeRun ==
    /\ task = "done"
    /\ exitCode = 0
    /\ assemblySize = 0 - 1
    /\ disOffset = 0
    /\ task' = "run"
    /\ exitCode' = NotReturned
    /\ UNCHANGED <<fileVars, asmVars, runVars, disVars, firstImage>>

\* case DISASM: return disassemble(args.inputFile, args.outputFile), on the
\* image of a finished assembly
InvokeDisassemble ==
    /\ task = "done"
    /\ exitCode = 0
    /\ assemblySize = 0 - 1
    /\ disOffset = 0
    /\ task' = "disassemble"
    /\ exitCode' = NotReturned
    /\ UNCHANGED <<fileVars, asmVars, runVars, disVars, firstImage>>

\* case ASM: return assemble(args.inputFile, args.outputFile), on the text a
\* finished disassembly wrote; the image of the first assembly is kept aside.
InvokeReassemble ==
    /\ task = "done"
    /\ exitCode = 0
    /\ disOffset > 0
    /\ firstImage = <<>>
    /\ task' = "assemble"
    /\ exitCode' = NotReturned
    /\ source' = text
    /\ firstImage' = <<image>>
    /\ isResolvingLabels' = FALSE
    /\ lineNo' = 0
    /\ lineBuf' = ""
    /\ currentByteOffset' = 0
    /\ labelTable' = <<>>
    /\ statusCode' = 0
    /\ written' = <<>>
    /\ UNCHANGED <<image, text, runVars, disVars>>

\* The assembler alone.
SpecAsm == InitAsm /\ [][Assemble]_vars

\* A source is assembled and the image is run.
NextAsmRun == Assemble \/ InvokeRun \/ RunStart \/ RunLoop
SpecAsmRun == InitAsm /\ [][NextAsmRun]_vars

\* A source is assembled, the image is disassembled and the text is assembled.
NextRoundTrip == Assemble \/ InvokeDisassemble \/ Disassemble \/ InvokeReassemble
SpecRoundTrip == InitAsm /\ [][NextRoundTrip]_vars

\* case DISASM: return disassemble(args.inputFile, args.outputFile), on any
\* binary file.  The file is three pieces in a row, each one nothing, an
\* instruction (without operand, with a register byte inside or outside the
\* register file, with a finite, infinite or NaN immediate), a byte that is
\* no opcode, a jump or CALL whose delta leads before the file, to its own
\* opcode, into an instruction, to an instruction, to the end of the file or
\* behind it; the file may end with a JMP that lacks the last byte of its
\* delta.
InitDis ==
    LET JumpPieces == {InstrJump(op, delta) :
                           op \in {JMP_OPCODE, CALL_OPCODE},
                           delta \in {0 - 7, 0 - 1, 0, SIZEOF_INT, SIZEOF_INT + 1, 9}}
        Pieces == {<<>>, Instr(HLT_OPCODE), Instr(255),
                   InstrReg(PUSHR_OPCODE, AX), InstrReg(POPRM_OPCODE, REGISTERS_NUMBER),
                   InstrImm(PUSH_OPCODE, D(1)), InstrImm(PUSH_OPCODE, Inf(0)),
                   InstrImm(PUSHM_OPCODE, NaN), InstrImm(POPM_OPCODE, Inf(1))}
                  \cup JumpPieces
    IN  /\ task = "disassemble"
        /\ image \in {Concat(<<a, b, c, cut>>) :
                          a \in Pieces, b \in Pieces, c \in Pieces,
                          cut \in {<<>>, <<JMP_OPCODE, 255, 255, 255>>}}
        /\ source = <<>>
        /\ text = <<>>
        /\ AssemblerIdle
        /\ MachineIdle
        /\ DisassemblerIdle
        /\ exitCode = NotReturned
        /\ firstImage = <<>>

\* The disassembler alone.
SpecDis == InitDis /\ [][Disassemble]_vars

\* main(): the program is invoked with ASM on a source, with RUN on any
\* image or with DISASM on any binary file, and then on the files it left.
InitMain == InitAsm \/ InitRun \/ InitDis
NextMain ==
    \/ Assemble
    \/ InvokeRun
    \/ RunStart
    \/ RunLoop
    \/ InvokeDisassemble
    \/ Disassemble
    \/ InvokeReassemble
SpecMain == InitMain /\ [][NextMain]_vars

(***************************************************************************)
(* Properties of the interpreter (checked under SpecRun).                  *)
(***************************************************************************)
\* The loop of run() is about to execute a complete instruction: the opcode
\* byte at pc and all its operand bytes lie inside the image.
AboutToExecute(ops) ==
    /\ task = "running"
    /\ fault = "none"
    /\ pc < assemblySize
    /\ ReadByte(pc) \in ops
    /\ ~ReadsPast(pc, BytesRead(ReadByte(pc)))

ConditionalJumps ==
    {JMPE_OPCODE, JMPNE_OPCODE, JMPL_OPCODE, JMPLE_OPCODE, JMPG_OPCODE, JMPGE_OPCODE}

\* run() returns this code in the step taken.
RunReturns(code) == exitCode' = code /\ fault' = "none" /\ task' = "done"

\* The register byte and the 8-byte immediate of the instruction at pc.
RegisterByteAtPc == ReadByte(pc + SIZEOF_BYTE)
ImmediateAtPc    == getNextOperand(pc + SIZEOF_BYTE).value

\* C1: executing OUT, POP, SQRT or DUP on an empty operand stack, or ADD, SUB,
\* MUL, DIV or a conditional jump on an operand stack of depth below 2, makes
\* run return ERR_STACK_UNDERFLOW, whatever was executed before.
C1_UnderflowReturned ==
    [][ (\/ AboutToExecute({OUT_OPCODE, POP_OPCODE, SQRT_OPCODE, DUP_OPCODE})
            /\ getStackSize(stack) = 0
         \/ AboutToExecute({ADD_OPCODE, SUB_OPCODE, MUL_OPCODE, DIV_OPCODE}
                           \cup ConditionalJumps)
            /\ getStackSize(stack) < 2)
        => RunReturns(ERR_STACK_UNDERFLOW) ]_vars

\* A conditional jump met an operand stack of depth 1 after other
\* instructions had run, and run returned ERR_STACK_UNDERFLOW.
C1_Witness ==
    /\ exitCode = ERR_STACK_UNDERFLOW
    /\ fetched = JMPLE_OPCODE
    /\ fetchedAt > 0
    /\ getStackSize(stack) = 1

\* (operand < 0) is false and (int)operand is defined and below RAM::SIZE.
ValidAddress(a) ==
    /\ a.c = "fin"
    /\ ~DLess(a, Zero)
    /\ IntOfDouble(a).ok
    /\ IntOfDouble(a).v < RAM_SIZE

\* The instruction at pc is POP R, POP [v] or POP [R] with a valid register
\* index and a valid RAM address.
AboutToPopInto ==
    \/ AboutToExecute({POPR_OPCODE}) /\ RegisterByteAtPc < REGISTERS_NUMBER
    \/ AboutToExecute({POPM_OPCODE}) /\ ValidAddress(ImmediateAtPc)
    \/ /\ AboutToExecute({POPRM_OPCODE})
       /\ RegisterByteAtPc < REGISTERS_NUMBER
       /\ ValidAddress(registers[RegisterByteAtPc])

\* C2: executing POP R, POP [v] or POP [R] (valid register, valid address) on
\* an empty operand stack makes run return ERR_STACK_UNDERFLOW, and no
\* assertion of the stack fails.
C2_PopEmptyReturnsUnderflow ==
    [][ (AboutToPopInto /\ getStackSize(stack) = 0)
        => RunReturns(ERR_STACK_UNDERFLOW) ]_vars

\* What the code does instead: pop() is called on the empty stack and its
\* assertion _size > 0 aborts the process.
C2_PopEmptyAborts ==
    [][ (AboutToPopInto /\ getStackSize(stack) = 0)
        => (fault' = "SIGABRT" /\ exitCode' = NotReturned) ]_vars

C2_Witness ==
    /\ fault = "SIGABRT"
    /\ fetched = POPR_OPCODE
    /\ getStackSize(stack) = 0
    /\ exitCode = NotReturned

\* a < 0 or floor(a) >= 1024
OutOfRam(a) ==
    \/ a.c = "inf"
    \/ a.c = "fin" /\ (DLess(a, Zero) \/ DLessEq(D(RAM_SIZE), a))

\* C3: executing PUSH [v], POP [v], PUSH [R] or POP [R] whose address a (the
\* immediate, or the value of the register) has a < 0 or floor(a) >= 1024
\* makes run return ERR_INVALID_RAM_ADDRESS, for every such a.
C3_BadAddressRejected ==
    [][ (\/ AboutToExecute({PUSHM_OPCODE, POPM_OPCODE}) /\ OutOfRam(ImmediateAtPc)
         \/ /\ AboutToExecute({PUSHRM_OPCODE, POPRM_OPCODE})
            /\ RegisterByteAtPc < REGISTERS_NUMBER
            /\ OutOfRam(registers[RegisterByteAtPc]))
        => RunReturns(ERR_INVALID_RAM_ADDRESS) ]_vars

\* PUSH [v] with v = 2^31 or more passed the address check and read memory
\* far outside the RAM array.
C3_Witness ==
    /\ fault = "SIGSEGV"
    /\ fetched = PUSHM_OPCODE
    /\ fetchedAt + BytesRead(PUSHM_OPCODE) <= assemblySize
    /\ DLessEq(Mk(0, 1, 31), getNextOperand(fetchedAt + SIZEOF_BYTE).value)

C5_InvalidRegisterRejected ==
    [][ (/\ AboutToExecute({PUSHR_OPCODE, POPR_OPCODE, PUSHRM_OPCODE, POPRM_OPCODE})
         /\ RegisterByteAtPc >= REGISTERS_NUMBER)
        => /\ RunReturns(ERR_INVALID_REGISTER)
           /\ UNCHANGED <<stack, callStack, registers, memory>> ]_vars

\* POP [R] with register byte 4 was fetched while a value was on the stack,
\* and run returned ERR_INVALID_REGISTER.
C5_Witness ==
    /\ exitCode = ERR_INVALID_REGISTER
    /\ fetched = POPRM_OPCODE
    /\ ReadByte(fetchedAt + SIZEOF_BYTE) = REGISTERS_NUMBER
    /\ getStackSize(stack) > 0


(***************************************************************************)
(* Properties of the assembler and of the disassembler.                    *)
(***************************************************************************)
\* A source line as assemble sees it after fgets and trim.
Trimmed(str) == trim(fgets("", str), 0)

\* The line is a label definition; the name it defines.
LabelLine(str) == Eval(Trimmed(str), LAMBDA t : strlen(t.b, t.s) # 0 /\ isLabel(t.b, t.s))
LabelOf(str)   == Eval(Trimmed(str), LAMBDA t : LabelName(t.b, t.s))

\* The operand token of an instruction line.
OperandOf(str) ==
    Eval(Trimmed(str), LAMBDA t :
    Eval(parseOperation(t.b, t.s), LAMBDA op :
    Eval(getNextToken(op.b, op.line), LAMBDA operand :
    Eval(asRamAccess(operand.b, operand.token), LAMBDA ram : CStr(ram.b, ram.token)))))

LabelLines == {k \in DOMAIN source : LabelLine(source[k])}

\* assemble has returned and nothing was invoked since; it has returned 0.
Assembled ==
    task = "done" /\ assemblySize = 0 - 1 /\ disOffset = 0 /\ exitCode = statusCode
Accepted  == Assembled /\ exitCode = 0

\* The entries of written that are a whole jump or CALL instruction.
JumpsWritten ==
    {i \in DOMAIN written : /\ isJumpOperation(written[i].bytes[1])
                            /\ Len(written[i].bytes) = SIZEOF_BYTE + SIZEOF_INT}

\* The delta written, and the offset of the label the source line names.
DeltaWritten(i) == IntOfBytes(SubSeq(written[i].bytes, 2, SIZEOF_BYTE + SIZEOF_INT))
TargetOf(i)     == labelTable[OperandOf(source[written[i].line])]

\* The disassembly of the first image has returned; the assembly of its
\* text has returned.
Disassembled == task = "done" /\ disOffset > 0 /\ firstImage = <<>>
Reassembled  == task = "done" /\ firstImage # <<>>

\* C6: round trip: for every source that assemble accepts, disassemble of the
\* image succeeds, and assemble of the text it wrote succeeds and produces
\* exactly the bytes of the first image.
C6_RoundTrip ==
    /\ Disassembled => exitCode = 0
    /\ Reassembled => exitCode = 0 /\ image = firstImage[1]

\* The round trip of PUSH 1234567 has returned 0 three times and the second
\* image differs from the first: the text holds the six digits of %lg.
C6_Witness ==
    /\ Reassembled
    /\ exitCode = 0
    /\ source = <<"PUSH 1.23457e+06\n">>
    /\ firstImage[1] = InstrImm(PUSH_OPCODE, D(1234567))
    /\ image = InstrImm(PUSH_OPCODE, D(1234570))

\* The condition under which the jump or CALL op at pc branches.
Branches(op) ==
    \/ op \in {JMP_OPCODE, CALL_OPCODE}
    \/ /\ getStackSize(stack) >= 2
       /\ Compare(op, stack[getStackSize(stack) - 1], stack[getStackSize(stack)])

C8_DeltaFromOpcodeByte ==
    \A i \in JumpsWritten : DeltaWritten(i) = TargetOf(i) - written[i].at

\* C8: for every jump or CALL instruction emitted in the second run, the
\* delta written is the offset of the target label minus the offset of the
\* byte after the opcode byte of the instruction (where the delta starts).
C8_DeltaFromOperand ==
    \A i \in JumpsWritten : DeltaWritten(i) = TargetOf(i) - (written[i].at + SIZEOF_BYTE)

\* An accepted source with a jump to a label defined before it (a negative
\* delta) and past one other instruction.
C8_Witness ==
    /\ Accepted
    /\ \E i \in JumpsWritten : /\ written[i].at > 0
                               /\ TargetOf(i) = 0
                               /\ DeltaWritten(i) = 0 - (written[i].at + SIZEOF_BYTE)

\* The instruction lines after line k that the second run emitted.
EmittedAfter(k) == {i \in DOMAIN written : written[i].line > k}

\* A valid source: assemble accepts it and an instruction line follows
\* every label definition.
ValidSource == Accepted /\ \A k \in LabelLines : EmittedAfter(k) # {}

\* C9: for a valid source with n label definitions, the label table holds
\* exactly n entries, and the offset of each is the offset at which the
\* second run emits the first instruction line after the definition.
C9_LabelOffsets ==
    ValidSource =>
        /\ Cardinality(DOMAIN labelTable) = Cardinality(LabelLines)
        /\ \A k \in LabelLines :
              /\ LabelOf(source[k]) \in DOMAIN labelTable
              /\ \E i \in EmittedAfter(k) :
                    /\ \A j \in EmittedAfter(k) : i <= j
                    /\ labelTable[LabelOf(source[k])] = written[i].at

\* A valid source in which two consecutive labels share the offset of the
\* instruction line after them.
C9_Witness ==
    /\ ValidSource
    /\ LabelLines = {1, 2}
    /\ DOMAIN labelTable = {"A", "B"}
    /\ labelTable["A"] = labelTable["B"]
    /\ \E i \in DOMAIN written : written[i].at = labelTable["A"] /\ written[i].line = 3

\* The pairs of lines that define the same label name.
Redefinitions ==
    {d \in LabelLines \X LabelLines :
        d[1] < d[2] /\ LabelOf(source[d[1]]) = LabelOf(source[d[2]])}

\* The offset at which the label definition of line k stands: the bytes of
\* the lines before it.
OffsetOfLine(k) ==
    AssembleLines([b |-> "", offset |-> 0, status |-> 0, resolving |-> TRUE,
                   labels |-> <<>>, out |-> <<>>, written |-> <<>>, read |-> 0],
                  SubSeq(source, 1, k - 1), 1).offset

\* The first line that defines the name line k defines.
FirstDefinition(k) ==
    CHOOSE f \in LabelLines :
        /\ LabelOf(source[f]) = LabelOf(source[k])
        /\ \A g \in LabelLines : LabelOf(source[g]) = LabelOf(source[k]) => f <= g

KeepsFirstOffset(k) ==
    /\ LabelOf(source[k]) \in DOMAIN labelTable
    /\ labelTable[LabelOf(source[k])] = OffsetOfLine(FirstDefinition(k))

\* C10 as claimed: if the source defines the same label name on two different
\* lines, assemble returns ERR_INVALID_LABEL and the label table keeps the
\* offset of the first definition.
C10_DuplicateRejected ==
    Assembled =>
        \A d \in Redefinitions : exitCode = ERR_INVALID_LABEL /\ KeepsFirstOffset(d[1])

\* C10: if the source defines the same label name on two different lines and
\* the first run reads the second of them (no line before it is rejected),
\* assemble returns ERR_INVALID_LABEL and the label table keeps the offset of
\* the first definition.
C10_DuplicateReached ==
    Assembled =>
        \A d \in Redefinitions :
            lineNo >= d[2] => exitCode = ERR_INVALID_LABEL /\ KeepsFirstOffset(d[1])

\* A label defined at offset 0 is defined again on the third line, after an
\* instruction; assemble has returned ERR_INVALID_LABEL from the first run
\* and the table holds offset 0.
C10_Witness ==
    /\ Assembled
    /\ exitCode = ERR_INVALID_LABEL
    /\ isResolvingLabels
    /\ <<1, 3>> \in Redefinitions
    /\ lineNo = 3
    /\ currentByteOffset > 0
    /\ labelTable[LabelOf(source[1])] = 0

\* The opcode of the mnemonic of an instruction line.
MnemonicOf(str) == Eval(Trimmed(str), LAMBDA t : parseOperation(t.b, t.s).opcode)

\* The lines that hold an instruction: not blank after trim, not a label.
InstructionLines ==
    {k \in DOMAIN source : /\ Eval(Trimmed(source[k]), LAMBDA t : strlen(t.b, t.s) # 0)
                           /\ ~LabelLine(source[k])}

\* The lines that hold a jump or CALL instruction.
JumpLines == {k \in InstructionLines : isJumpOperation(MnemonicOf(source[k]))}

\* Some label line of the source defines the name.
Defined(name) == \E k \in LabelLines : LabelOf(source[k]) = name

\* The second run has returned (the first run found no error).
SecondRunReturned == Assembled /\ ~isResolvingLabels

\* The second run has emitted line k as a jump to the offset of its label.
Resolved(k) ==
    \E i \in JumpsWritten :
        /\ written[i].line = k
        /\ OperandOf(source[k]) \in DOMAIN labelTable
        /\ DeltaWritten(i) = JumpDelta(TargetOf(i), written[i].at + SIZEOF_BYTE)

\* C11: in the second run, the operand of a jump or CALL line is rejected with
\* ERR_INVALID_LABEL exactly when no label line of the source defines that
\* name, and a reference to a defined label is resolved (the line is emitted
\* with the delta to the offset of the label), whatever that offset is.
C11_UndefinedLabelRejected ==
    SecondRunReturned =>
        \A k \in JumpLines :
            k <= lineNo =>
                /\ (lineNo = k /\ exitCode = ERR_INVALID_LABEL)
                       <=> ~Defined(OperandOf(source[k]))
                /\ Defined(OperandOf(source[k])) => Resolved(k)

\* The second run has returned 0 for a source whose only line is a jump with
\* a bracketed operand that no label line defines; one byte was emitted.
C11_Witness ==
    /\ SecondRunReturned
    /\ exitCode = 0
    /\ source = <<"JMP [B]\n">>
    /\ image = <<SetFlag(JMP_OPCODE, IS_RAM_OP_MASK)>>

\* The label lines with no instruction line after them: only blank lines,
\* label lines or the end of the file follow.
DanglingLabels == {k \in LabelLines : \A j \in InstructionLines : j < k}

\* C12: if a label definition has no instruction line after it in the source
\* (only blank lines or the end of the file follow it), assemble returns
\* ERR_INVALID_LABEL, unless it has returned the error of an earlier line
\* (the first error ends the assembly).
C12_DanglingLabelRejected ==
    Assembled =>
        (DanglingLabels # {} /\ exitCode \notin {ERR_INVALID_OPERATION, ERR_INVALID_REGISTER}
            => exitCode = ERR_INVALID_LABEL)

\* assemble has returned 0 for a source that ends with a label line and a
\* blank line: both runs ended with the blank line in the buffer.
C12_Witness ==
    /\ SecondRunReturned
    /\ exitCode = 0
    /\ source = <<"HLT\n", "A:\n", "\n">>
    /\ DanglingLabels = {2}
    /\ labelTable = ("A" :> 1)
    /\ image = Instr(HLT_OPCODE)

\* C13: whenever assemble returns an error, found in the first run or in the
\* second, no byte has been written to the output image.
C13_NoPartialImage ==
    Assembled /\ isError(exitCode) => image = <<>>

\* The second run has returned ERR_INVALID_LABEL at a jump to an undefined
\* label on the second line; the bytes of the first line and the opcode byte
\* of the jump are in the image.
C13_Witness ==
    /\ SecondRunReturned
    /\ exitCode = ERR_INVALID_LABEL
    /\ source = <<"HLT\n", "JMP A\n">>
    /\ lineNo = 2
    /\ image = <<HLT_OPCODE, JMP_OPCODE>>

(***************************************************************************)
(* Properties of the program counter and of jumps, calls and arithmetic.   *)
(***************************************************************************)
\* C14: whenever the loop of run() is about to fetch, 0 <= pc <= assemblySize
\* (after plain instructions, operand reads, taken and untaken jumps, CALL
\* and RET), and no assertion on the range of pc has failed: a process that
\* an assertion has ended stopped with pc in range (it was another one).
C14_PcInRange ==
    task = "running" /\ fault \in {"none", "SIGABRT"} => PcAssertion(pc)

\* The image has no HLT at its end: the fetch at pc = assemblySize has read
\* the byte after the image, and the assertion of processOperation(byte)
\* has failed with pc = assemblySize + 1.
C14_Witness ==
    /\ task = "running"
    /\ fault = "SIGABRT"
    /\ fetchedAt = assemblySize
    /\ fetched = HLT_OPCODE
    /\ pc = assemblySize + SIZEOF_BYTE
    /\ image = InstrImm(PUSH_OPCODE, D(3))

\* The offset the jump or CALL written as entry i of the second run leads
\* to: the interpreter adds the delta, less sizeof(int), to the pc after the
\* instruction.
EncodedTarget(i) ==
    written[i].at + SIZEOF_BYTE + SIZEOF_INT + MinusSizeofInt(DeltaWritten(i))

\* C15: in every image that assemble produces successfully, the target
\* offset encoded by each jump or CALL is the offset at which some
\* instruction of that image starts (not the middle of an instruction, not
\* the end of the image).
C15_TargetsAreInstructions ==
    Accepted =>
        \A i \in JumpsWritten : \E j \in DOMAIN written : written[j].at = EncodedTarget(i)

\* An accepted source whose jump leads to the end of the image: its label
\* is followed by a blank line only.
C15_Witness ==
    /\ Accepted
    /\ source = <<"JMP A\n", "A:\n", "\n">>
    /\ image = InstrJump(JMP_OPCODE, SIZEOF_INT)
    /\ \E i \in JumpsWritten : EncodedTarget(i) = Len(image)

JumpOpcodes == ConditionalJumps \cup {JMP_OPCODE, CALL_OPCODE}

\* The delta of the jump or CALL at pc, the pc after that instruction, and
\* the pc a taken jump computes from them.
DeltaAtPc == getNextJumpOffset(pc + SIZEOF_BYTE).value
PcAfterJump == pc + SIZEOF_BYTE + SIZEOF_INT
NewPc == PcAfterJump + DeltaAtPc - SIZEOF_INT

\* C16: when a jump that is taken (JMP, a conditional jump whose predicate
\* holds, or CALL) computes a new pc outside [0, assemblySize), run returns
\* ERR_INVALID_OPERATION in that step, so that no further instruction is
\* executed; for CALL the return address has been pushed on the call stack.
C16_JumpOutOfRangeRejected ==
    [][ (/\ AboutToExecute(JumpOpcodes)
         /\ Branches(ReadByte(pc))
         /\ (NewPc < 0 \/ NewPc >= assemblySize))
        => /\ RunReturns(ERR_INVALID_OPERATION)
           /\ ReadByte(pc) = CALL_OPCODE => callStack' = push(callStack, PcAfterJump)
           /\ ReadByte(pc) # CALL_OPCODE => callStack' = callStack ]_vars

\* run has returned ERR_INVALID_OPERATION from a CALL that led past the end
\* of the image; the return address is on the call stack.
C16_Witness ==
    /\ task = "done"
    /\ exitCode = ERR_INVALID_OPERATION
    /\ fetched = CALL_OPCODE
    /\ pc >= assemblySize
    /\ callStack = <<fetchedAt + SIZEOF_BYTE + SIZEOF_INT>>

\* C17: CALL pushes on the call stack the pc of the instruction that follows
\* the CALL, and RET pops the most recently pushed value into pc, so that
\* execution resumes right after the matching CALL and nested calls return in
\* reverse order; CALL and RET leave the operand stack as it is.
C17_CallAndReturn ==
    [][ /\ AboutToExecute({CALL_OPCODE})
           => /\ callStack' = Append(callStack, PcAfterJump)
              /\ stack' = stack
        /\ AboutToExecute({RET_OPCODE}) /\ Len(callStack) >= 1
           => /\ pc' = callStack[Len(callStack)]
              /\ callStack' = SubSeq(callStack, 1, Len(callStack) - 1)
              /\ stack' = stack
              /\ task' = "running" ]_vars

\* Two nested calls have returned in reverse order: after CALL, CALL, RET
\* the second execution of the RET at offset 10 has resumed at offset 5, right
\* after the first CALL, and the call stack is empty again.
C17_Witness ==
    /\ task = "running"
    /\ fault = "none"
    /\ Len(image) >= 11
    /\ SubSeq(image, 1, 11) = InstrJump(CALL_OPCODE, SIZEOF_INT)
                                 \o InstrJump(CALL_OPCODE, SIZEOF_INT) \o Instr(RET_OPCODE)
    /\ fetched = RET_OPCODE
    /\ fetchedAt = 10
    /\ pc = 5
    /\ callStack = <<>>

\* C18: executing RET when the call stack is empty makes run return
\* ERR_STACK_UNDERFLOW and leaves the operand stack, the registers and the
\* RAM (and the empty call stack) unchanged.
C18_ReturnWithoutCall ==
    [][ AboutToExecute({RET_OPCODE}) /\ Len(callStack) = 0
        => /\ RunReturns(ERR_STACK_UNDERFLOW)
           /\ UNCHANGED <<stack, registers, memory, callStack>> ]_vars

\* run has returned ERR_STACK_UNDERFLOW from a RET that no CALL preceded,
\* with a value on the operand stack, in a register or in the RAM.
C18_Witness ==
    /\ task = "done"
    /\ exitCode = ERR_STACK_UNDERFLOW
    /\ fetched = RET_OPCODE
    /\ callStack = <<>>
    /\ \/ stack # <<>>
       \/ registers[AX] # Zero
       \/ memory # <<>>

\* The predicate of a conditional jump on lhs and rhs, in the comparisons of
\* doubles (each is false when an operand or the difference is a NaN).
PredicateHolds(op, lhs, rhs) ==
    CASE op = JMPL_OPCODE  -> DLess(lhs, rhs)
      [] op = JMPLE_OPCODE -> DLess(lhs, rhs) \/ DEq(lhs, rhs)
      [] op = JMPG_OPCODE  -> DLess(rhs, lhs)
      [] op = JMPGE_OPCODE -> DLess(rhs, lhs) \/ DEq(lhs, rhs)
      [] op = JMPE_OPCODE  -> FabsLessEps(DSub(lhs, rhs))
      [] op = JMPNE_OPCODE -> /\ DSub(lhs, rhs).c # "nan"
                              /\ ~FabsLessEps(DSub(lhs, rhs))

\* C19: a conditional jump executed on an operand stack of depth >= 2 pops
\* exactly two values (rhs, the top, and lhs, the one below), whether or not
\* it branches; it branches (pc becomes the pc it computes from the delta)
\* iff its predicate holds on (lhs, rhs): JMPL lhs < rhs, JMPLE lhs <= rhs,
\* JMPG lhs > rhs, JMPGE lhs >= rhs, JMPE |lhs - rhs| < 1e-9, JMPNE
\* |lhs - rhs| >= 1e-9; when it does not branch, pc is the offset of the
\* next instruction and the run goes on.
C19_ConditionalJump ==
    [][ AboutToExecute(ConditionalJumps) /\ Len(stack) >= 2
        => /\ stack' = SubSeq(stack, 1, Len(stack) - 2)
           /\ IF PredicateHolds(ReadByte(pc), stack[Len(stack) - 1], stack[Len(stack)])
              THEN pc' = NewPc
              ELSE pc' = PcAfterJump /\ task' = "running" ]_vars

\* JMPL has branched on lhs = 1 (pushed first) and rhs = 2 (the top): the
\* operand stack is empty and pc is not the offset of the next instruction.
C19_Witness ==
    /\ task = "running"
    /\ fault = "none"
    /\ Len(image) >= 2 * (SIZEOF_BYTE + SIZEOF_DOUBLE)
    /\ SubSeq(image, 1, 2 * (SIZEOF_BYTE + SIZEOF_DOUBLE))
          = InstrImm(PUSH_OPCODE, D(1)) \o InstrImm(PUSH_OPCODE, D(2))
    /\ fetched = JMPL_OPCODE
    /\ stack = <<>>
    /\ pc # fetchedAt + SIZEOF_BYTE + SIZEOF_INT

\* C20: ADD, SUB, MUL and DIV executed on an operand stack of depth >= 2 pop
\* rhs (the top) and lhs (the value under it) and push lhs + rhs, lhs - rhs,
\* lhs * rhs, lhs / rhs: the depth decreases by one and the values below are
\* unchanged.
C20_Arithmetic ==
    [][ \A op \in {ADD_OPCODE, SUB_OPCODE, MUL_OPCODE, DIV_OPCODE} :
            AboutToExecute({op}) /\ Len(stack) >= 2
            => LET lhs == stack[Len(stack) - 1]
                   rhs == stack[Len(stack)]
                   res == CASE op = ADD_OPCODE -> DAdd(lhs, rhs)
                            [] op = SUB_OPCODE -> DSub(lhs, rhs)
                            [] op = MUL_OPCODE -> DMul(lhs, rhs)
                            [] op = DIV_OPCODE -> DDiv(lhs, rhs)
               IN  /\ stack' = Append(SubSeq(stack, 1, Len(stack) - 2), res)
                   /\ task' = "running" ]_vars

\* SUB has run on 3, 1, 2: the stack holds 3 and 1 - 2 = -1.
C20_Witness ==
    /\ task = "running"
    /\ fault = "none"
    /\ fetched = SUB_OPCODE
    /\ stack = <<D(3), D(0 - 1)>>

(***************************************************************************)
(* Properties of run(), of the encoding and of the disassembler.           *)
(***************************************************************************)
ErrorCodes ==
    {ERR_INVALID_OPERATION, ERR_INVALID_REGISTER, ERR_STACK_UNDERFLOW, ERR_INVALID_LABEL,
     ERR_INVALID_FILE, ERR_INVALID_RAM_ADDRESS}

\* C21: run stops at the first executed instruction that is HLT or that
\* yields an error: an executed HLT yields HLT_OPCODE; when the instruction
\* executed yields HLT_OPCODE (0, success) or an error code, run returns that
\* value in the same step; otherwise the loop goes on and run has not
\* returned; once run has returned, no instruction is executed.
C21_RunStops ==
    [][ /\ AboutToExecute({HLT_OPCODE}) => fault' = "none" /\ opcode' = HLT_OPCODE
        /\ task = "running" /\ fault' = "none"
           => IF opcode' = HLT_OPCODE \/ opcode' \in ErrorCodes
              THEN task' = "done" /\ exitCode' = opcode'
              ELSE task' = "running" /\ exitCode' = NotReturned
        /\ task = "done" => UNCHANGED runVars ]_vars

\* run has returned 0 from a HLT that was executed after another
\* instruction, with bytes of the image left behind it.
C21_Witness ==
    /\ task = "done"
    /\ exitCode = 0
    /\ fetched = HLT_OPCODE
    /\ fetchedAt > 0
    /\ pc = fetchedAt + SIZEOF_BYTE
    /\ pc < assemblySize

\* The text lines that define the label name.
DefinitionLines(name) == {k \in DOMAIN text : text[k] = name \o ":\n"}

\* Line k of the text defines one of the synthesized labels.
IsDefinitionLine(k) == \E o \in DOMAIN labels : k \in DefinitionLines(labels[o])

\* The number of instruction lines among the first k lines of the text.
InstructionsUpTo(k) == Cardinality({i \in 1..k : ~IsDefinitionLine(i)})

RECURSIVE SizeOfLines(_)
\* The bytes the first j decoded instructions take.
SizeOfLines(j) == IF j = 0 THEN 0 ELSE SizeOfLines(j - 1) + lines[j].size

\* The starting byte offset of the instruction on line k of the text.
StartOfInstructionAt(k) == SizeOfLines(InstructionsUpTo(k) - 1)

\* C22: in the output of a successful disassembly every synthesized label is
\* defined by exactly one line, which stands immediately before the
\* instruction line that starts at the label's target offset, or after the
\* last instruction line when the target is the image length.
C22_LabelPlacement ==
    Disassembled /\ exitCode = 0
    => \A o \in DOMAIN labels :
           /\ Cardinality(DefinitionLines(labels[o])) = 1
           /\ \A k \in DefinitionLines(labels[o]) :
                  \/ /\ k < Len(text)
                     /\ ~IsDefinitionLine(k + 1)
                     /\ StartOfInstructionAt(k + 1) = o
                  \/ /\ k = Len(text)
                     /\ o = Len(image)

\* A successful disassembly whose last line defines a label that lies behind
\* the end of the image.
C22_Witness ==
    /\ Disassembled
    /\ exitCode = 0
    /\ \E o \in DOMAIN labels :
           /\ o > Len(image)
           /\ text # <<>>
           /\ text[Len(text)] = labels[o] \o ":\n"

\* The bytes an instruction with opcode op takes in an image.
SizeOfInstruction(op) ==
    SIZEOF_BYTE + (IF HasFlag(op, IS_REG_OP_MASK) THEN SIZEOF_BYTE
                   ELSE IF getOperationArityByOpcode(op) # 1 THEN 0
                   ELSE IF isJumpOperation(op) THEN SIZEOF_INT ELSE SIZEOF_DOUBLE)

RECURSIVE StartsFrom(_)
\* The starting offsets of the instructions of the image from offset pos on.
StartsFrom(pos) ==
    IF pos >= Len(image) THEN {}
    ELSE {pos} \cup StartsFrom(pos + SizeOfInstruction(image[pos + 1]))

\* The offsets of the jumps and CALLs of the image whose delta is complete.
JumpsOfImage ==
    {p \in StartsFrom(0) : /\ isJumpOperation(image[p + 1])
                           /\ p + SIZEOF_BYTE + SIZEOF_INT <= Len(image)}

\* The target offset of the jump at offset p: the delta counts from the
\* offset of the delta field.
TargetOfJumpAt(p) ==
    p + SIZEOF_BYTE + IntOfBytes(SubSeq(image, p + 2, p + 1 + SIZEOF_INT))

\* C23: disassembling an image with a jump or CALL whose target offset is
\* negative, greater than the image length, or neither the start of an
\* instruction nor the image end, fails with ERR_INVALID_LABEL (unless an
\* instruction of the image cannot be decoded, which is reported instead).
C23_BadTargetRejected ==
    /\ Disassembled
    /\ \E p \in JumpsOfImage :
           \/ TargetOfJumpAt(p) < 0
           \/ TargetOfJumpAt(p) > Len(image)
           \/ TargetOfJumpAt(p) \notin StartsFrom(0) \cup {Len(image)}
    => exitCode \in {ERR_INVALID_LABEL, ERR_INVALID_OPERATION, ERR_INVALID_REGISTER}

\* A successful disassembly of an image with a jump to an offset behind the
\* end of the image.
C23_Witness ==
    /\ Disassembled
    /\ exitCode = 0
    /\ \E p \in JumpsOfImage : TargetOfJumpAt(p) > Len(image)

\* The operand token of an instruction line stands in brackets.
BracketedOperand(str) ==
    Eval(Trimmed(str), LAMBDA t :
    Eval(parseOperation(t.b, t.s), LAMBDA op :
    Eval(getNextToken(op.b, op.line), LAMBDA operand :
         asRamAccess(operand.b, operand.token).isRam)))

\* The operand of an instruction line, brackets removed, names a register.
RegisterOperand(str) == OperandOf(str) \in {"AX", "BX", "CX", "DX"}

\* The base opcode of the mnemonic of an instruction line with REG_FLAG for
\* a register operand and RAM_FLAG for a bracketed operand.
FlaggedOpcode(str) ==
    Eval(IF BracketedOperand(str) THEN SetFlag(MnemonicOf(str), IS_RAM_OP_MASK)
         ELSE MnemonicOf(str), LAMBDA op :
         IF RegisterOperand(str) THEN SetFlag(op, IS_REG_OP_MASK) ELSE op)

\* The instruction lines whose mnemonic is known and whose flagged opcode
\* has no arity.
LinesWithoutArity ==
    {k \in InstructionLines :
        /\ MnemonicOf(source[k]) # ERR_INVALID_OPERATION
        /\ FlaggedOpcode(source[k]) \notin NullaryOpcodes \cup UnaryOpcodes}

\* C24: when assemble reaches a line whose mnemonic with REG_FLAG (register
\* operand) and/or RAM_FLAG (bracketed operand) is an opcode without arity,
\* it returns ERR_INVALID_OPERATION at that line and emits no byte for it.
C24_FlaggedOpcodeChecked ==
    Assembled =>
        \A k \in LinesWithoutArity :
            k <= lineNo =>
                /\ lineNo = k
                /\ exitCode = ERR_INVALID_OPERATION
                /\ \A i \in DOMAIN written : written[i].line # k

\* assemble has returned 0 for the one-line source ADD [8] and the image is
\* the byte of ADD with RAM_FLAG.
C24_Witness ==
    /\ Accepted
    /\ source = <<"ADD [8]\n">>
    /\ image = <<SetFlag(ADD_OPCODE, IS_RAM_OP_MASK)>>

\* The PUSH and POP lines whose operand, brackets removed, is a name (it
\* does not begin as a number and is no literal strtod reads) but not the
\* name of a register.
MisnamedRegisterLines ==
    {k \in InstructionLines :
        /\ MnemonicOf(source[k]) \in {PUSH_OPCODE, POP_OPCODE}
        /\ OperandOf(source[k]) # ""
        /\ ~isdigit(Char(OperandOf(source[k]), 0))
        /\ Char(OperandOf(source[k]), 0) \notin {"-", "+", "."}
        /\ ~toDouble(OperandOf(source[k])).ok
        /\ ~RegisterOperand(source[k])}

\* C25: when assemble reaches an instruction whose operand is meant as a
\* register but is none of AX, BX, CX, DX, it returns ERR_INVALID_REGISTER
\* at that line.
C25_UnknownRegisterRejected ==
    Assembled =>
        \A k \in MisnamedRegisterLines :
            k <= lineNo => lineNo = k /\ exitCode = ERR_INVALID_REGISTER

\* assemble has returned ERR_INVALID_OPERATION for the one-line source
\* PUSH EX.
C25_Witness ==
    /\ Assembled
    /\ source = <<"PUSH EX\n">>
    /\ 1 \in MisnamedRegisterLines
    /\ exitCode = ERR_INVALID_OPERATION

\* The opcodes that take an 8-byte immediate: PUSH v, PUSH [v] and POP [v].
ImmediateOpcodes == {PUSH_OPCODE, PUSHM_OPCODE, POPM_OPCODE}

\* The double is NaN or an infinity.
NotFinite(x) == x.c \in {"nan", "inf"}

\* The instruction lines in which the assembler reads an immediate that is
\* no finite number: the token is not fully a number, or the number is NaN
\* or an infinity.
NonFiniteLiteralLines ==
    {k \in InstructionLines :
        /\ FlaggedOpcode(source[k]) \in ImmediateOpcodes
        /\ Eval(toDouble(OperandOf(source[k])), LAMBDA r : ~r.ok \/ NotFinite(r.value))}

\* The instruction at offset q of the image is rejected by the disassembler
\* for its register byte or for a negative jump target.
RejectedAt(q) ==
    IF HasFlag(image[q + 1], IS_REG_OP_MASK)
    THEN getOperationNameByOpcode(image[q + 1]) # nullptr
         /\ fgetc(image, q + SIZEOF_BYTE) >= REGISTERS_NUMBER
    ELSE q \in JumpsOfImage /\ TargetOfJumpAt(q) < 0

\* The offsets of the instructions of the image that carry a complete
\* immediate that is NaN or an infinity.
NonFiniteImmediates ==
    {p \in StartsFrom(0) :
        /\ image[p + 1] \in ImmediateOpcodes
        /\ p + SIZEOF_BYTE + SIZEOF_DOUBLE <= Len(image)
        /\ NotFinite(DoubleOfBytes(SubSeq(image, p + 2, p + 1 + SIZEOF_DOUBLE)))}

\* C26: an immediate that is NaN or an infinity is rejected with
\* ERR_INVALID_OPERATION wherever it is read: by the assembler at the line
\* whose literal it is (also a token that is not fully a number), by the
\* disassembler when it is the operand of PUSH v, PUSH [v] or POP [v] in the
\* image (unless an instruction before it is rejected for its register or
\* its jump target), and by the interpreter when it executes such an
\* instruction.
C26_NonFiniteImmediateRejected ==
    /\ [](Assembled =>
            \A k \in NonFiniteLiteralLines :
                k <= lineNo => lineNo = k /\ exitCode = ERR_INVALID_OPERATION)
    /\ [](Disassembled =>
            \A p \in NonFiniteImmediates :
                \/ exitCode = ERR_INVALID_OPERATION
                \/ /\ exitCode \in {ERR_INVALID_REGISTER, ERR_INVALID_LABEL}
                   /\ \E q \in StartsFrom(0) : q < p /\ RejectedAt(q))
    /\ [][ AboutToExecute(ImmediateOpcodes) /\ NotFinite(ImmediateAtPc)
           => RunReturns(ERR_INVALID_OPERATION) /\ UNCHANGED <<stack, memory, registers>>
       ]_vars

\* run has returned ERR_INVALID_OPERATION from a POP [v] whose immediate is
\* an infinity, with a value on the operand stack.
C26_Witness ==
    /\ task = "done"
    /\ exitCode = ERR_INVALID_OPERATION
    /\ fetched = POPM_OPCODE
    /\ fetchedAt + SIZEOF_BYTE + SIZEOF_DOUBLE <= assemblySize
    /\ getNextOperand(fetchedAt + SIZEOF_BYTE).value = Inf(1)
    /\ stack # <<>>

\* The bytes an instruction line occupies by its form: 5 for a jump or
\* CALL, 2 for a register operand, 9 for an immediate (the operand of PUSH
\* or a bracketed operand of POP), 1 otherwise.
SizeOfLine(str) ==
    IF isJumpOperation(MnemonicOf(str)) THEN SIZEOF_BYTE + SIZEOF_INT
    ELSE IF RegisterOperand(str) THEN 2 * SIZEOF_BYTE
    ELSE IF FlaggedOpcode(str) \in ImmediateOpcodes THEN SIZEOF_BYTE + SIZEOF_DOUBLE
    ELSE SIZEOF_BYTE

RECURSIVE SizeOfSource(_)
\* The sum of the sizes of the instruction lines among the first k lines.
SizeOfSource(k) ==
    IF k = 0 THEN 0
    ELSE SizeOfSource(k - 1) + (IF k \in InstructionLines THEN SizeOfLine(source[k]) ELSE 0)

\* C27: in an accepted source every instruction line is emitted once and
\* occupies 1 byte (no operand), 2 bytes (register operand), 9 bytes
\* (immediate) or 5 bytes (jump or CALL), starting where the lines before
\* it end; label lines and blank lines emit nothing; and the image length is
\* the sum over the instruction lines.
C27_InstructionSizes ==
    Accepted =>
        /\ \A i \in DOMAIN written :
               /\ written[i].line \in InstructionLines
               /\ Len(written[i].bytes) = SizeOfLine(source[written[i].line])
               /\ written[i].at = SizeOfSource(written[i].line - 1)
        /\ \A k \in InstructionLines :
               Cardinality({i \in DOMAIN written : written[i].line = k}) = 1
        /\ Len(image) = SizeOfSource(Len(source))

\* An accepted source in which a jump line behind another instruction was
\* emitted as a single byte.
C27_Witness ==
    /\ Accepted
    /\ \E i \in DOMAIN written :
           /\ written[i].at > 0
           /\ isJumpOperation(MnemonicOf(source[written[i].line]))
           /\ Len(written[i].bytes) = SIZEOF_BYTE

\* The image is well formed, jump-free and ends with HLT: every instruction
\* has a defined opcode that is no jump or CALL, every register byte names
\* a register, the last instruction is complete and it is HLT.
WellFormedJumpFree ==
    /\ image # <<>>
    /\ \A p \in StartsFrom(0) :
           /\ image[p + 1] \in NullaryOpcodes \cup UnaryOpcodes
           /\ ~isJumpOperation(image[p + 1])
           /\ p + SizeOfInstruction(image[p + 1]) <= Len(image)
           /\ HasFlag(image[p + 1], IS_REG_OP_MASK) => image[p + 2] < REGISTERS_NUMBER
    /\ Len(image) - SIZEOF_BYTE \in StartsFrom(0)
    /\ image[Len(image)] = HLT_OPCODE

\* C28: for a well-formed jump-free image whose last instruction is HLT,
\* each step of the interpreter starts at an instruction and advances pc by
\* exactly the length of that instruction, and when run returns from the
\* final HLT pc is the image length.
C28_PcAdvance ==
    [][ WellFormedJumpFree /\ task = "running" /\ fault' = "none"
        => /\ pc \in StartsFrom(0)
           /\ pc' = pc + SizeOfInstruction(image[pc + 1])
           /\ pc = Len(image) - SIZEOF_BYTE
                  => task' = "done" /\ exitCode' = 0 /\ pc' = Len(image) /\ pc' = assemblySize
      ]_vars

\* run has returned 0 from the final HLT of a well-formed jump-free image of
\* three or more instructions, with pc at the image length.
C28_Witness ==
    /\ task = "done"
    /\ exitCode = 0
    /\ WellFormedJumpFree
    /\ Cardinality(StartsFrom(0)) >= 3
    /\ fetchedAt = Len(image) - SIZEOF_BYTE
    /\ pc = Len(image)

\* No instruction of the image has one of these opcodes.
NoInstruction(ops) == \A p \in StartsFrom(0) : image[p + 1] \notin ops

\* The machine is constructed and no instruction has been executed.
RunStarted == task = "running" /\ fetchedAt = 0 - 1

\* C29: when run starts, pc = 0, the operand stack and the call stack are
\* empty, the four registers hold 0 and every RAM byte is 0; hence PUSH R
\* in an image without POP R, and PUSH [v] or PUSH [R] (with an address that
\* is accepted) in an image without POP [v] and POP [R], push 0.
C29_InitialState ==
    /\ [](RunStarted =>
            /\ pc = 0
            /\ stack = <<>>
            /\ callStack = <<>>
            /\ \A r \in 0..(REGISTERS_NUMBER - 1) : registers[r] = Zero
            /\ \A a \in DOMAIN memory : memory[a] = 0)
    /\ [][ /\ AboutToExecute({PUSHR_OPCODE}) /\ NoInstruction({POPR_OPCODE})
              /\ RegisterByteAtPc < REGISTERS_NUMBER /\ fault' = "none"
              => stack' = push(stack, Zero)
           /\ AboutToExecute({PUSHM_OPCODE, PUSHRM_OPCODE})
              /\ NoInstruction({POPM_OPCODE, POPRM_OPCODE})
              /\ fault' = "none" /\ opcode' = ReadByte(pc)
              => stack' = push(stack, Zero)
       ]_vars

\* PUSH [1020] has been executed in an image without a RAM store and the
\* value on the operand stack is not 0.
C29_Witness ==
    /\ task \in {"running", "done"}
    /\ fault = "none"
    /\ NoInstruction({POPM_OPCODE, POPRM_OPCODE})
    /\ fetched = PUSHM_OPCODE
    /\ opcode = PUSHM_OPCODE
    /\ getNextOperand(fetchedAt + SIZEOF_BYTE).value = D(1020)
    /\ stack # <<>>
    /\ top(stack) # Zero

\* The offsets of the jumps and CALLs the disassembler decodes, and the
\* target each refers to (the delta as asmReadJumpOffset reads it).
DecodedJumps == {p \in StartsFrom(0) : isJumpOperation(image[p + 1])}
ReferencedTarget(p) == p + SIZEOF_BYTE + asmReadJumpOffset(image, p + SIZEOF_BYTE)

\* The first jump that refers to the target t, and the number of distinct
\* targets referred to before it.
FirstReference(t) ==
    CHOOSE p \in DecodedJumps :
        /\ ReferencedTarget(p) = t
        /\ \A q \in DecodedJumps : ReferencedTarget(q) = t => p <= q
TargetsBefore(t) ==
    Cardinality({ReferencedTarget(q) : q \in {q \in DecodedJumps : q < FirstReference(t)}})

\* C30: in a successful disassembly the labels are the targets the jumps
\* refer to; the k-th distinct target in decoding order is named L(k-1), so
\* jumps to one offset share the name and different offsets have different
\* names; and the line of each jump carries the name of its target.
C30_LabelNames ==
    Disassembled /\ exitCode = 0 =>
        /\ DOMAIN labels = {ReferencedTarget(p) : p \in DecodedJumps}
        /\ \A t \in DOMAIN labels : labels[t] = "L" \o ToString(TargetsBefore(t))
        /\ \A t, u \in DOMAIN labels : t # u => labels[t] # labels[u]
        /\ \A p \in DecodedJumps :
               lines[Cardinality({q \in StartsFrom(0) : q <= p})].text
                   = getOperationNameByOpcode(image[p + 1]) \o " "
                         \o labels[ReferencedTarget(p)]

\* A successful disassembly of three jumps, of which the first and the last
\* refer to the same offset and the second to a smaller one: the larger
\* offset is L0 and the smaller one L1.
C30_Witness ==
    /\ Disassembled
    /\ exitCode = 0
    /\ Cardinality(DecodedJumps) = 3
    /\ \E t, u \in DOMAIN labels :
           /\ t < u
           /\ labels[t] = "L1"
           /\ labels[u] = "L0"
    /\ Cardinality(DOMAIN labels) = 2

\* The address operand of the RAM instruction at offset p of the image: the
\* immediate, or the register the register byte names.
RamOperandAt(p) ==
    IF HasFlag(image[p + 1], IS_REG_OP_MASK) THEN registers[image[p + 2]]
    ELSE getNextOperand(p + SIZEOF_BYTE).value

\* The instruction executed last is a RAM store that returned its opcode and
\* follows a PUSH of an immediate, which is therefore the value it stored.
StoredJustBefore ==
    /\ task = "running"
    /\ fetched \in {POPM_OPCODE, POPRM_OPCODE}
    /\ opcode = fetched
    /\ fetchedAt - SIZEOF_BYTE - SIZEOF_DOUBLE \in StartsFrom(0)
    /\ image[fetchedAt - SIZEOF_DOUBLE] = PUSH_OPCODE
    /\ pc = fetchedAt + SizeOfInstruction(fetched)

StoredValue == getNextOperand(fetchedAt - SIZEOF_DOUBLE).value

\* The instruction at pc is a RAM load of the address just stored to.
LoadsStoredAddress ==
    /\ AboutToExecute({PUSHM_OPCODE, PUSHRM_OPCODE})
    /\ HasFlag(ReadByte(pc), IS_REG_OP_MASK) => RegisterByteAtPc < REGISTERS_NUMBER
    /\ RamOperandAt(pc) = RamOperandAt(fetchedAt)

\* C31: RAM round trip: when POP [a] or POP [R] has stored x at an accepted
\* address and the next instruction is PUSH [a] or PUSH [R] with the same
\* address, that instruction returns its opcode and pushes exactly x.
C31_RamRoundTrip ==
    [][ StoredJustBefore /\ LoadsStoredAddress
        => /\ fault' = "none"
           /\ opcode' = ReadByte(pc)
           /\ stack' = push(stack, StoredValue)
      ]_vars

\* PUSH 5; POP [1020]; PUSH [1020] has been executed and the value on the
\* operand stack is not 5.
C31_Witness ==
    /\ task \in {"running", "done"}
    /\ fault = "none"
    /\ fetched = PUSHM_OPCODE
    /\ opcode = PUSHM_OPCODE
    /\ fetchedAt = 2 * (SIZEOF_BYTE + SIZEOF_DOUBLE)
    /\ image[1] = PUSH_OPCODE
    /\ getNextOperand(SIZEOF_BYTE).value = D(5)
    /\ image[fetchedAt - SIZEOF_DOUBLE] = POPM_OPCODE
    /\ RamOperandAt(fetchedAt - SIZEOF_BYTE - SIZEOF_DOUBLE) = D(1020)
    /\ RamOperandAt(fetchedAt) = D(1020)
    /\ stack # <<>>
    /\ top(stack) # D(5)

\* The indices of RAM::memory that the RAM instruction at offset p of the
\* image touches when its address is accepted: memory[pos + i], i < 8.
RamCellsAt(p) ==
    LET pos == IntOfDouble(RamOperandAt(p))
    IN  IF pos.ok THEN pos.v..(pos.v + SIZEOF_DOUBLE - 1) ELSE {0 - 1}

RamOpcodes == {PUSHM_OPCODE, PUSHRM_OPCODE, POPM_OPCODE, POPRM_OPCODE}

\* C32: every byte that a RAM load or store touches has an index in
\* [0, 1024): no byte outside the array is ever written, and a load or store
\* whose address passes the bounds check reads or writes memory[pos..pos+7]
\* inside the 1024-byte array.
C32_RamAccessInBounds ==
    /\ [](DOMAIN memory \subseteq 0..(RAM_SIZE - 1))
    /\ [][ /\ AboutToExecute(RamOpcodes)
           /\ HasFlag(ReadByte(pc), IS_REG_OP_MASK) => RegisterByteAtPc < REGISTERS_NUMBER
           /\ fault' = "none"
           /\ opcode' = ReadByte(pc)
           => RamCellsAt(pc) \subseteq 0..(RAM_SIZE - 1)
       ]_vars

\* A RAM store has returned its opcode and bytes behind the array are
\* written.
C32_Witness ==
    /\ task \in {"running", "done"}
    /\ fault = "none"
    /\ fetched \in {POPM_OPCODE, POPRM_OPCODE}
    /\ opcode = fetched
    /\ \E a \in DOMAIN memory : a >= RAM_SIZE

\* C33: every byte the interpreter reads from the image (the opcode, a
\* register byte, an 8-byte immediate, a 4-byte delta) is at an index in
\* [0, assemblySize): whenever processNextOperation fetches at pc, the bytes
\* of the instruction it reads lie inside the image.
C33_ReadsInsideImage ==
    [][ task = "running" /\ fault = "none" /\ PcAssertion(pc)
        => ~ReadsPast(pc, BytesRead(ReadByte(pc)))
      ]_vars

\* The last instruction of the image is a PUSH cut short after its opcode:
\* getNextOperand has read eight bytes behind the image.
C33_Witness ==
    /\ task \in {"running", "done"}
    /\ fetched = PUSH_OPCODE
    /\ fetchedAt = assemblySize - SIZEOF_BYTE
    /\ fetchedAt > 0
    /\ ReadsPast(fetchedAt, BytesRead(fetched))

\* C34: when OUT, POP, SQRT, DUP, ADD, SUB, MUL, DIV, a conditional jump or
\* RET makes run return ERR_STACK_UNDERFLOW, the operand stack, the call
\* stack, the registers and the RAM are as they were before the instruction.
C34_UnderflowLeavesState ==
    [][ /\ AboutToExecute({OUT_OPCODE, POP_OPCODE, SQRT_OPCODE, DUP_OPCODE, ADD_OPCODE,
                           SUB_OPCODE, MUL_OPCODE, DIV_OPCODE, RET_OPCODE}
                          \cup ConditionalJumps)
        /\ RunReturns(ERR_STACK_UNDERFLOW)
        => UNCHANGED <<stack, callStack, registers, memory>>
      ]_vars

\* A binary operation or a conditional jump has returned ERR_STACK_UNDERFLOW
\* on an operand stack of depth 1, which still holds its value.
C34_Witness ==
    /\ task = "done"
    /\ fault = "none"
    /\ exitCode = ERR_STACK_UNDERFLOW
    /\ fetched \in {ADD_OPCODE, DIV_OPCODE} \cup ConditionalJumps
    /\ getStackSize(stack) = 1

\* C35: frame conditions of the interpreter.  A register changes only by
\* POP R on that register; the RAM changes only by POP [v] and POP [R]; the
\* call stack changes only by CALL, which pushes the return address, and by
\* RET, which pops it into pc; JMP, CALL and RET leave the operand stack
\* unchanged; PUSH R, PUSH [R] and POP [R] leave the registers unchanged.
C35_FrameConditions ==
    [][ task = "running"
        => /\ \A r \in DOMAIN registers :
                  registers'[r] # registers[r]
                      => ReadByte(pc) = POPR_OPCODE /\ RegisterByteAtPc = r
           /\ memory' # memory => ReadByte(pc) \in {POPM_OPCODE, POPRM_OPCODE}
           /\ callStack' # callStack
                  => \/ /\ ReadByte(pc) = CALL_OPCODE
                        /\ callStack' = push(callStack, pc + SIZEOF_BYTE + SIZEOF_INT)
                     \/ /\ ReadByte(pc) = RET_OPCODE
                        /\ callStack = push(callStack', pc')
           /\ ReadByte(pc) \in {JMP_OPCODE, CALL_OPCODE, RET_OPCODE} => stack' = stack
           /\ ReadByte(pc) \in {PUSHR_OPCODE, PUSHRM_OPCODE, POPRM_OPCODE}
                  => registers' = registers
      ]_vars

\* RET has returned from the second of two nested CALLs: one return address
\* is left on the call stack.
C35_Witness ==
    /\ task = "running"
    /\ fault = "none"
    /\ fetched = RET_OPCODE
    /\ opcode = RET_OPCODE
    /\ getStackSize(callStack) = 1
    /\ pc = 2 * (SIZEOF_BYTE + SIZEOF_INT)

RECURSIVE OffsetsBefore(_, _)
\* currentByteOffset at the start of each iteration of the while loop from
\* source line k on, for a run in state st.
OffsetsBefore(st, k) ==
    IF k > Len(source) \/ st.status # 0 THEN <<st.offset>>
    ELSE <<st.offset>> \o Eval(AssembleLine(st, source[k], k),
                               LAMBDA next : OffsetsBefore(next, k + 1))

\* The offsets the first run (output == nullptr) computes before each line.
FirstRunOffsets ==
    OffsetsBefore([b |-> "", offset |-> 0, status |-> 0, resolving |-> TRUE,
                   labels |-> <<>>, out |-> <<>>, written |-> <<>>, read |-> 0], 1)

RECURSIVE BytesOfEntries(_)
\* The number of bytes the first n instruction lines of the second run put
\* into the file.
BytesOfEntries(n) == IF n = 0 THEN 0 ELSE BytesOfEntries(n - 1) + Len(written[n].bytes)

\* The number of bytes the second run has put into the file before line k.
BytesWrittenBefore(k) == BytesOfEntries(Cardinality({i \in DOMAIN written : written[i].line < k}))

\* C36: the two runs of assemble keep the same offsets: when the first run has
\* succeeded, for every line the second run has read, the offset the first
\* run has before that line is the number of bytes the second run has put
\* into the file before it, which is also the second run's own
\* currentByteOffset there.
C36_SameOffsets ==
    SecondRunReturned
    => \A offs \in {FirstRunOffsets} :
           /\ Len(offs) = Len(source) + 1
           /\ \A k \in 1..lineNo : offs[k] = BytesWrittenBefore(k)
           /\ \A i \in DOMAIN written : written[i].at = BytesWrittenBefore(written[i].line)
           /\ BytesWrittenBefore(lineNo + 1) = Len(image)

\* The second run has stopped at a jump to an undefined label after it has
\* written an instruction with an operand, on a source with a label line.
C36_Witness ==
    /\ SecondRunReturned
    /\ exitCode = ERR_INVALID_LABEL
    /\ lineNo < Len(source)
    /\ LabelLines # {}
    /\ \E i \in DOMAIN written : written[i].at > SIZEOF_BYTE

\* The integer addresses whose eight bytes lie inside the RAM array.
CellAddresses == 0..(RAM_SIZE - SIZEOF_DOUBLE)

\* The value PUSH [b] pushes when the RAM is mem.
LoadedFrom(mem, b) == getAt(mem, b, CHOOSE u \in UB : TRUE)

\* C37: RAM cells at distinct integer addresses are independent: a store
\* POP [a] or POP [R] to an integer address a that returns its opcode leaves
\* the value that PUSH [b] pushes unchanged, for every integer address b # a.
C37_CellsIndependent ==
    [][ /\ AboutToExecute({POPM_OPCODE, POPRM_OPCODE})
        /\ HasFlag(ReadByte(pc), IS_REG_OP_MASK) => RegisterByteAtPc < REGISTERS_NUMBER
        /\ fault' = "none"
        /\ opcode' = ReadByte(pc)
        => \A a \in CellAddresses :
               RamOperandAt(pc) = D(a)
               => \A b \in CellAddresses \ {a} : LoadedFrom(memory', b) = LoadedFrom(memory, b)
      ]_vars

\* PUSH 5; POP [8]; PUSH 1; POP [9]; PUSH [8] has been executed and the
\* value on the operand stack is not 5.
C37_Witness ==
    /\ task \in {"running", "done"}
    /\ fault = "none"
    /\ fetched = PUSHM_OPCODE
    /\ opcode = PUSHM_OPCODE
    /\ fetchedAt = 4 * (SIZEOF_BYTE + SIZEOF_DOUBLE)
    /\ RamOperandAt(fetchedAt) = D(8)
    /\ image[1] = PUSH_OPCODE
    /\ getNextOperand(SIZEOF_BYTE).value = D(5)
    /\ image[SIZEOF_DOUBLE + 2] = POPM_OPCODE
    /\ RamOperandAt(SIZEOF_BYTE + SIZEOF_DOUBLE) = D(8)
    /\ image[3 * (SIZEOF_BYTE + SIZEOF_DOUBLE) + 1] = POPM_OPCODE
    /\ RamOperandAt(3 * (SIZEOF_BYTE + SIZEOF_DOUBLE)) = D(9)
    /\ stack # <<>>
    /\ top(stack) # D(5)

\* The program START: IN; OUT; JMP START; HLT.
LoopProgram == source = <<"START:\n", "IN\n", "OUT\n", "JMP START\n", "HLT\n">>

\* C38: for the program START: IN; OUT; JMP START; HLT the assembler emits a
\* negative delta for JMP; the run never fetches HLT, never fails and never
\* returns; each iteration is one IN that pushes the value read on the empty
\* stack, one OUT that writes that value and empties the stack, and the jump
\* back to offset 0: the k-th line OUT writes is the k-th value IN read.
C38_EchoLoop ==
    /\ [](LoopProgram /\ Assembled
            => /\ exitCode = 0
               /\ image = <<IN_OPCODE, OUT_OPCODE>>
                              \o InstrJump(JMP_OPCODE, 0 - (2 * SIZEOF_BYTE + SIZEOF_BYTE))
                              \o <<HLT_OPCODE>>
               /\ JumpsWritten # {}
               /\ \A i \in JumpsWritten : DeltaWritten(i) < 0)
    /\ [](LoopProgram /\ task \in {"running", "done"} /\ assemblySize # 0 - 1
            => /\ task = "running"
               /\ fault = "none"
               /\ exitCode = NotReturned
               /\ ReadByte(pc) # HLT_OPCODE
               /\ \A j \in DOMAIN stdout : (stdout[j] = "> ") <=> (j % 2 = 1))
    /\ [][ LoopProgram /\ task = "running"
           => /\ ReadByte(pc) = IN_OPCODE
                 => /\ stack = <<>>
                    /\ \E inputValue \in InputValues : stack' = <<inputValue>>
                    /\ stdout' = Append(stdout, "> ")
              /\ ReadByte(pc) = OUT_OPCODE
                 => /\ getStackSize(stack) = 1
                    /\ stack' = <<>>
                    /\ stdout' = Append(stdout, FormatG(top(stack)) \o "\n")
              /\ ReadByte(pc) = JMP_OPCODE
                 => /\ pc' = 0
                    /\ UNCHANGED <<stack, stdout>>
       ]_vars

\* The loop has run three times: three prompts and three lines are written,
\* not all lines the same, and the run is at the jump.
C38_Witness ==
    /\ LoopProgram
    /\ task = "running"
    /\ ReadByte(pc) = JMP_OPCODE
    /\ Len(stdout) = 6
    /\ stdout[2] # stdout[4]
    /\ stdout[6] = "7\n"

\* The run cannot be followed further: the next instruction leads beyond the
\* bounds on the stacks and on the output, or to a double that is not
\* represented.
RunCut == task = "running" /\ fault = "none" /\ ~RunCanStep

\* C39: termination: on a well-formed image without jump, CALL and RET whose
\* last instruction is HLT, run eventually returns (0 on reaching HLT, or an
\* error code), and until then every instruction executed starts at a
\* greater offset than the one before, so that no more instructions are
\* executed than the image contains.
C39_RunReturns ==
    /\ (WellFormedJumpFree /\ task = "running") ~> (task = "done" \/ RunCut)
    /\ [][ WellFormedJumpFree /\ task = "running"
           => fetchedAt' \in StartsFrom(0) /\ fetchedAt' > fetchedAt ]_vars

\* POP R has been fetched on an empty operand stack in a well-formed image
\* that ends with HLT: the process is aborted and run does not return.
C39_Witness ==
    /\ WellFormedJumpFree
    /\ task = "running"
    /\ fault = "SIGABRT"
    /\ fetched = POPR_OPCODE
    /\ stack = <<>>
    /\ exitCode = NotReturned

====
